---- MODULE Spec2Model ----
(***************************************************************************)
(* Model of the Phoenix kernel task/scheduler core (src/kernel/sched.c,    *)
(* src/kernel/task.c, src/kernel/kernel/signal.c, src/kernel/spinlock.c).  *)
(* Each core executes kernel operations as sequences of steps; steps of    *)
(* different cores interleave.  Task control blocks are identified by      *)
(* their index (the pointer value), 0 being the null pointer.              *)
(***************************************************************************)
EXTENDS Integers, Sequences, FiniteSets, TLC

\* ------------------------------------------------------------------------
\* Program constants
\* ------------------------------------------------------------------------
NULL == 0
TASK_RUNNING == 0
TASK_READY == 1
TASK_BLOCKED == 2
TASK_ZOMBIE == 3
TASK_MIN_PRIORITY == 0
MAX_CPUS == 8
SIG_DFL == 0
SIG_IGN == 1
\* a user handler address: any value other than SIG_DFL and SIG_IGN
SIG_USR == 2
\* number of cores of the modelled platform (detect_nr_cpus())
nr_cpus == 2
\* errno values task_create leaves behind
EINVAL == "EINVAL"
ENOMEM == "ENOMEM"
\* tasks test_shared_globals creates
NumIncTasks == 3

\* ------------------------------------------------------------------------
\* Bounds of the model
\* ------------------------------------------------------------------------
\* task control blocks that are ever allocated, the idle tasks included
MaxTasks == 4
\* tasks the yield stress test creates (100 in 100_task_stress.c)
MaxYielders == 3
\* increments each test task makes (10000 in shared_global_test.c)
Increments == 2
\* tasks in the ready queue handed to pick_next_task
MaxQueue == 3
\* the heap arena in units of ALIGN bytes (HEAP_SIZE is 128 MB in malloc.c)
HeapUnits == 10
\* bits of size_t (64 in the kernel): sizes are computed modulo 2^WordBits
WordBits == 10
\* depth of the history of nested kmalloc/kfree pairs
MaxNest == 2
\* calls followed after the arena was first damaged
MaxAfter == 4
\* calls followed after two cores first raced for the heap
MaxRaced == 2

CPUs == 0 .. (nr_cpus - 1)
TaskIds == 1 .. MaxTasks
TaskStates == {TASK_RUNNING, TASK_READY, TASK_BLOCKED, TASK_ZOMBIE}
\* priorities passed to task_create (kernel.c uses 0 and 10)
Priorities == {TASK_MIN_PRIORITY, 10}
\* cpu_affinity masks passed to task_create
Affinities == {0, 1, 2}
\* states passed to task_block
BlockStates == {TASK_BLOCKED}
\* handlers passed to signal()
Handlers == {SIG_DFL, SIG_IGN, SIG_USR}

VARIABLES
    task,          \* task control blocks: task[t] is the task_t at pointer t
    cpu_sched,     \* cpu_sched[c]: per-core scheduler state
    current_task,  \* the single global current_task pointer
    pc,            \* pc[c]: position of core c inside a kernel operation
    loc,           \* loc[c]: local variables of the operation core c executes
    ipi,           \* cores with a reschedule SGI pending
    lock_value,    \* the word of the spinlock the test tasks share
    monitor,       \* tasks holding an exclusive monitor on that word
    shared_counter,\* shared_counter of shared_global_test.c
    wpc,           \* wpc[w]: position of test task w
    wreg,          \* wreg[w]: registers of test task w (loaded value, i, lock use)
    tpc,           \* position of test_shared_globals
    waiting,       \* history: tasks that called task_block(TASK_BLOCKED) and
                   \* on which task_wakeup has not been called since
    rq,            \* a ready queue handed to pick_next_task: rq[i] is the
                   \* state and priority of the i-th task from runqueue_head
    picked,        \* the task pick_next_task returned for rq (NULL: not called)
    mem,           \* heap[]: mem[w] is the 8-byte word at heap + 8 * w
    free_list_head,\* free_list_head of malloc.c
    heap_allocated,\* heap_allocated of malloc.c
    live,          \* pointers kmalloc and kcalloc returned that were not freed since
    hcall,         \* the last heap call: operation, result, error, stray access
    damage,        \* history: 0 while every header is what the calls so far
                   \* made it; since malloc_init ran over a carved arena or
                   \* memset ran past its block, 1 + the calls that succeeded
    lifo,          \* history: the kmalloc calls not yet undone by kfree in
                   \* LIFO order, each with the free blocks before the call
    hpc,           \* hpc[c]: position of core c inside kmalloc or kfree
    hloc,          \* hloc[c]: locals of the heap call core c executes
    daif,          \* daif[c]: the exception mask bits of PSTATE set on core c
    lockw,         \* lockw[l]: the word of spinlock l (0 free, 1 held)
    stack,         \* stack[c]: the calls of core c that have not returned,
                   \* outermost first, each with its position and locals
    touch,         \* history: the accesses the last step made to a core's
                   \* current-task pointer or ready queue
    build,         \* the spinlock source file the kernel image is linked with
    pgt,           \* pgt[t]: the entries of the page table in block t
    nalloc,        \* kmalloc(PAGE_SIZE) blocks handed out to the MMU code
    mcalls,        \* mmu_map calls made
    mcall,         \* the last mmu_map call: arguments, result and history
                   \* (leaves written, pages invalidated, the tables before)
    mbuild,        \* the mmu source file the kernel image is linked with
    tcall,         \* a task_create call: arguments, result, what it tried to
                   \* allocate, what it still holds, where it enqueued
    next_pid,      \* next_pid of task.c
    ppc,           \* ppc[c]: position of core c inside the pid assignment
    preg,          \* preg[c]: the values core c holds in registers there
    pidlog,        \* history: the pids stored into task->pid, in order,
                   \* each with the core and the function that stored it
    pbuild,        \* how the image implements __atomic_add_fetch
    ftask,         \* the task control blocks fork reads and writes
    fsched,        \* per core: the task it runs and its ready queue
    fcurrent,      \* the global current_task when fork is called
    fpgt,          \* fpgt[t]: the entries of the page table in block t
    fnalloc,       \* kmalloc(PAGE_SIZE) blocks handed out so far
    fcall,         \* the fork call made: core, caller, result, and the
                   \* tasks, queues and tables before it
    fmap,          \* the last mmu_map call: task, page, the tables before
    etask,         \* the saved user context of the task that calls execve
    ecall,         \* the execve call made: arguments, result, errno, and
                   \* the context and tables before it
    tm,            \* tm[t]: next, expires_ns and active of timer t
    thead,         \* timer_lists[cpu] of the core
    tnow,          \* get_time_ns()
    tq,            \* timer_irq_handler on the core: where it is, its locals
                   \* t and next, the calls the running callback has made
    tcancelled,    \* history: timers timer_cancel returned for and
                   \* timer_schedule was not called on since
    tlate,         \* history: a callback was invoked for a timer of tcancelled
    tnested        \* history: a call was made on a linked timer or from a
                   \* callback

\* the state of the scheduler and of the spinlock test
schedvars == <<task, cpu_sched, current_task, pc, loc, ipi>>
testvars == <<lock_value, monitor, shared_counter, wpc, wreg, tpc>>
pickvars == <<rq, picked>>
heapvars == <<mem, free_list_head, heap_allocated, live, hcall, damage, lifo>>
smpvars == <<hpc, hloc>>
irqvars == <<daif, lockw, stack, touch, build>>
mmuvars == <<pgt, nalloc, mcalls, mcall, mbuild>>
pidvars == <<next_pid, ppc, preg, pidlog, pbuild>>
forkvars == <<ftask, fsched, fcurrent, fpgt, fnalloc, fcall, fmap>>
execvars == <<etask, ecall>>
timervars == <<tm, thead, tnow, tq, tcancelled, tlate, tnested>>
morevars == <<pidvars, forkvars, execvars, timervars>>
extvars == <<irqvars, mmuvars, tcall, morevars>>
auxvars == <<pickvars, heapvars, smpvars, extvars>>
vars == <<task, cpu_sched, current_task, pc, loc, ipi,
          lock_value, monitor, shared_counter, wpc, wreg, tpc, waiting,
          rq, picked, mem, free_list_head, heap_allocated, live, hcall,
          damage, lifo, hpc, hloc, daif, lockw, stack, touch, build,
          pgt, nalloc, mcalls, mcall, mbuild, tcall,
          next_pid, ppc, preg, pidlog, pbuild,
          ftask, fsched, fcurrent, fpgt, fnalloc, fcall, fmap,
          etask, ecall,
          tm, thead, tnow, tq, tcancelled, tlate, tnested>>

\* ------------------------------------------------------------------------
\* Helpers
\* ------------------------------------------------------------------------
Allocated == DOMAIN task

\* __builtin_ctzll on a non-zero mask
RECURSIVE Ctz(_)
Ctz(x) == IF x % 2 = 1 THEN 0 ELSE 1 + Ctz(x \div 2)

\* 1ULL << n
RECURSIVE Shl1(_)
Shl1(n) == IF n = 0 THEN 1 ELSE 2 * Shl1(n - 1)

NoLocals == [prev |-> NULL, next |-> NULL, task |-> NULL, arg |-> 0, errno |-> "none"]

\* The tasks met following next from pointer t, at most fuel of them
RECURSIVE Walk(_, _, _)
Walk(tk, t, fuel) ==
    IF t = NULL \/ fuel = 0 THEN <<>>
    ELSE <<t>> \o Walk(tk, tk[t].next, fuel - 1)

\* The ready queue of core c as seen from runqueue_head
QueueOf(tk, cs, c) == Walk(tk, cs[c].runqueue_head, MaxTasks + 1)
Queue(c) == QueueOf(task, cpu_sched, c)

SeqToSet(s) == {s[i] : i \in 1 .. Len(s)}

\* ------------------------------------------------------------------------
\* sched.c
\* ------------------------------------------------------------------------
\* enqueue_task(sched, t): the task table and the scheduler table afterwards
\* enqueue_task without the task->prev = sched->runqueue_tail assignment
enqueue_task_noprev(tk, cs, c, t) ==
    LET tail == cs[c].runqueue_tail
        tk1 == [tk EXCEPT ![t].next = NULL]
        tk2 == IF tail # NULL THEN [tk1 EXCEPT ![tail].next = t] ELSE tk1
    IN  [tk2 EXCEPT ![t].state = TASK_READY]

enqueue_task_tk(tk, cs, c, t) ==
    LET tail == cs[c].runqueue_tail
        tk1 == [tk EXCEPT ![t].next = NULL, ![t].prev = tail]
        tk2 == IF tail # NULL THEN [tk1 EXCEPT ![tail].next = t] ELSE tk1
    IN  [tk2 EXCEPT ![t].state = TASK_READY]

enqueue_task_cs(cs, c, t) ==
    LET tail == cs[c].runqueue_tail
        cs1 == IF tail # NULL THEN cs ELSE [cs EXCEPT ![c].runqueue_head = t]
    IN  [cs1 EXCEPT ![c].runqueue_tail = t]

\* pick_next_task: scan of the queue from a pointer with the best so far
RECURSIVE pick_scan(_, _, _, _, _)
pick_scan(tk, t, best, best_priority, fuel) ==
    IF t = NULL \/ fuel = 0 THEN best
    ELSE IF tk[t].state = TASK_READY /\ tk[t].priority > best_priority
         THEN pick_scan(tk, tk[t].next, t, tk[t].priority, fuel - 1)
         ELSE pick_scan(tk, tk[t].next, best, best_priority, fuel - 1)

\* pick_next_task that keeps the core's current task when no task is READY
pick_next_task_keep(tk, cs, c) ==
    LET best == pick_scan(tk, cs[c].runqueue_head, NULL, -1, MaxTasks + 1)
    IN  IF best # NULL THEN best ELSE cs[c].current

pick_next_task(tk, cs, c) ==
    LET best == pick_scan(tk, cs[c].runqueue_head, NULL, -1, MaxTasks + 1)
    IN  IF best # NULL THEN best ELSE cs[c].idle_task

\* A task control block as sched_init_cpu fills idle_task_storage[c]
IdleTcb(c) ==
    [state |-> TASK_READY, priority |-> TASK_MIN_PRIORITY, next |-> NULL,
     prev |-> NULL, cpu_affinity |-> Shl1(c), handler |-> SIG_DFL,
     pending |-> FALSE, blocked |-> FALSE]

IdleOf(c) == c + 1

\* ---------------------------------------------------------------------
\* kernel/malloc.c: first-fit free-list allocator with coalescing.
\* The arena is modelled word by word (8 bytes each), so that a header
\* written over the remains of an older one changes exactly the fields
\* that share its bytes.  Sizes and addresses are WordBits wide instead
\* of 64, the two 32-bit fields magic and free share the first word of a
\* header, and HDR_MAGIC stands for 0xFEEDC0DE: like the original it is
\* no multiple of ALIGN, so no size and no block address equals it.
\* ---------------------------------------------------------------------
ALIGN == 16
HDR_MAGIC == 30
\* sizeof(block_hdr_t): 4 + 4 + 8 + 8 + 8 + 8 bytes
SizeofHdr == 40
\* the address of heap[0]; not 0, so that no block is at NULL
HeapBase == 64
WordMod == 2 ^ WordBits
HalfMod == 2 ^ (WordBits \div 2)
HEAP_SIZE == HeapUnits * ALIGN
heap_end == HeapBase + HEAP_SIZE
HeapWords == HEAP_SIZE \div 8
\* a kmalloc that never returns (the scan of a cyclic free list)
Hang == -1

ALIGN_UP(n) ==
    LET m == (n + (ALIGN - 1)) % WordMod
    IN  m - (m % ALIGN)
HdrSize == ALIGN_UP(SizeofHdr)
MIN_PAYLOAD == (HdrSize + ALIGN) % WordMod

\* F applied to the value of x, with x evaluated once
Bind(x, F(_)) == CHOOSE r \in {F(y) : y \in {x}} : TRUE

\* A heap value h is [mem, head, alloc, wild]: the arena, free_list_head,
\* heap_allocated, and whether an access left the arena.
InArena(a) == a >= HeapBase /\ a < heap_end /\ a % 8 = 0
Rd(h, a) == IF InArena(a) THEN h.mem[(a - HeapBase) \div 8] ELSE 0
Wr(h, a, v) ==
    IF InArena(a) THEN [h EXCEPT !.mem[(a - HeapBase) \div 8] = v]
    ELSE [h EXCEPT !.wild = TRUE]

\* the fields of block_hdr_t at address b
magic(h, b) == Rd(h, b) % HalfMod
free(h, b) == Rd(h, b) \div HalfMod
size(h, b) == Rd(h, b + 8)
prev_phys(h, b) == Rd(h, b + 16)
next_free(h, b) == Rd(h, b + 24)
prev_free(h, b) == Rd(h, b + 32)
set_magic(h0, b, v) == Bind(h0, LAMBDA h : Wr(h, b, v + HalfMod * free(h, b)))
set_free(h0, b, v) == Bind(h0, LAMBDA h : Wr(h, b, magic(h, b) + HalfMod * v))
set_size(h, b, v) == Wr(h, b + 8, v)
set_prev_phys(h, b, v) == Wr(h, b + 16, v)
set_next_free(h, b, v) == Wr(h, b + 24, v)
set_prev_free(h, b, v) == Wr(h, b + 32, v)

next_phys(h, b) == (b + size(h, b)) % WordMod

free_list_insert(h0, b) ==
    Bind(h0, LAMBDA h :
    Bind(set_prev_free(set_next_free(h, b, h.head), b, NULL), LAMBDA h2 :
         [(IF h2.head # NULL THEN set_prev_free(h2, h2.head, b) ELSE h2)
              EXCEPT !.head = b]))

free_list_remove(h0, b) ==
    Bind(h0, LAMBDA h :
    Bind(IF prev_free(h, b) # NULL
         THEN set_next_free(h, prev_free(h, b), next_free(h, b))
         ELSE [h EXCEPT !.head = next_free(h, b)], LAMBDA h1 :
    Bind(IF next_free(h1, b) # NULL
         THEN set_prev_free(h1, next_free(h1, b), prev_free(h1, b))
         ELSE h1, LAMBDA h2 :
         set_prev_free(set_next_free(h2, b, NULL), b, NULL))))

\* after->prev_phys = b, if after is a block inside the arena
fix_after(h0, b) ==
    Bind(h0, LAMBDA h :
    Bind(next_phys(h, b), LAMBDA after :
         IF after < heap_end /\ magic(h, after) = HDR_MAGIC
         THEN set_prev_phys(h, after, b)
         ELSE h))

\* coalesce_forward returns b itself in both branches; this is the heap
coalesce_forward(h0, b) ==
    Bind(h0, LAMBDA h :
    Bind(next_phys(h, b), LAMBDA nx :
         IF nx >= heap_end \/ magic(h, nx) # HDR_MAGIC \/ free(h, nx) = 0
         THEN h
         ELSE Bind(free_list_remove(h, nx), LAMBDA h1 :
              Bind(set_size(h1, b, (size(h1, b) + size(h1, nx)) % WordMod), LAMBDA h2 :
                   fix_after(h2, b)))))

malloc_init(h0) ==
    Bind(h0, LAMBDA h :
    Bind(set_free(set_magic(h, HeapBase, HDR_MAGIC), HeapBase, 1), LAMBDA h2 :
    Bind(set_prev_phys(set_size(h2, HeapBase, HEAP_SIZE), HeapBase, NULL), LAMBDA h4 :
    Bind(set_prev_free(set_next_free(h4, HeapBase, NULL), HeapBase, NULL), LAMBDA h6 :
         [h6 EXCEPT !.head = HeapBase, !.alloc = 0]))))

\* while (b && b->size < need) b = b->next_free;
RECURSIVE first_fit(_, _, _, _)
first_fit(h, b, need, fuel) ==
    IF b = NULL \/ size(h, b) >= need THEN b
    ELSE IF fuel = 0 THEN Hang
    ELSE first_fit(h, next_free(h, b), need, fuel - 1)

kmalloc_need(n) == (HdrSize + ALIGN_UP(n)) % WordMod

\* the split of block b in kmalloc: lines 105-119
kmalloc_split(h0, b, need) ==
    Bind(h0, LAMBDA h :
    Bind(set_free(set_magic(h, b + need, HDR_MAGIC), b + need, 1), LAMBDA h2 :
    Bind(set_size(h2, b + need, (size(h2, b) - need) % WordMod), LAMBDA h3 :
    Bind(set_prev_phys(h3, b + need, b), LAMBDA h4 :
    Bind(set_prev_free(set_next_free(h4, b + need, NULL), b + need, NULL), LAMBDA h6 :
    Bind(fix_after(h6, b + need), LAMBDA h7 :
    Bind(free_list_insert(h7, b + need), LAMBDA h8 :
         set_size(h8, b, need))))))))

\* free_list_remove(b); b->free = 0; heap_allocated += b->size;
kmalloc_take(h0, b) ==
    Bind(set_free(free_list_remove(h0, b), b, 0), LAMBDA h2 :
         [h2 EXCEPT !.alloc = (@ + size(h2, b)) % WordMod])

\* the arena nothing was ever carved from: free_list_head and heap[] are
\* as the loader zeroed them
Untouched(h) == h.head = NULL /\ magic(h, HeapBase) # HDR_MAGIC

\* kmalloc up to the end of the scan (lines 92-98), for size # 0: the heap
\* after the lazy malloc_init, the block found, the bytes needed
kmalloc_scan(h0, n) ==
    Bind(h0, LAMBDA h :
    Bind(IF h.head = NULL THEN malloc_init(h) ELSE h, LAMBDA h1 :
         [h |-> h1, b |-> first_fit(h1, h1.head, kmalloc_need(n), HeapUnits),
          need |-> kmalloc_need(n), dmg |-> h.head = NULL /\ ~Untouched(h)]))

\* kmalloc from the split on (lines 105-125) for the block b found
kmalloc_finish(h0, b, need) ==
    Bind(h0, LAMBDA h :
    Bind(IF size(h, b) >= (need + MIN_PAYLOAD) % WordMod
         THEN kmalloc_split(h, b, need)
         ELSE h, LAMBDA h1 :
         [h |-> kmalloc_take(h1, b), ret |-> b + HdrSize]))

kmalloc(h0, n) ==
    IF n = 0 THEN [h |-> h0, ret |-> NULL, dmg |-> FALSE]
    ELSE Bind(kmalloc_scan(h0, n), LAMBDA s :
              IF s.b = NULL \/ s.b = Hang THEN [h |-> s.h, ret |-> s.b, dmg |-> s.dmg]
              ELSE Bind(kmalloc_finish(s.h, s.b, s.need), LAMBDA f :
                        [h |-> f.h, ret |-> f.ret, dmg |-> s.dmg]))

\* the backward merge of kfree: lines 145-154; yields [h, b]
kfree_merge(h0, b) ==
    Bind(h0, LAMBDA h :
    Bind(prev_phys(h, b), LAMBDA prev :
         IF prev # NULL /\ magic(h, prev) = HDR_MAGIC /\ free(h, prev) # 0
         THEN Bind(free_list_remove(h, prev), LAMBDA h1 :
              Bind(set_size(h1, prev, (size(h1, prev) + size(h1, b)) % WordMod), LAMBDA h2 :
                   [h |-> fix_after(h2, prev), b |-> prev]))
         ELSE [h |-> h, b |-> b]))

\* kfree after its checks (lines 140-156) for the block b
kfree_update(h0, b) ==
    Bind(h0, LAMBDA h :
    Bind(set_free([h EXCEPT !.alloc = (@ - size(h, b)) % WordMod], b, 1), LAMBDA h2 :
    Bind(kfree_merge(coalesce_forward(h2, b), b), LAMBDA m :
         free_list_insert(m.h, m.b))))

\* kfree without the test of b->free
kfree_nofree(h, ptr) ==
    IF ptr = NULL THEN "null"
    ELSE IF magic(h, ptr - HdrSize) # HDR_MAGIC THEN "CorruptionDetected"
    ELSE "ok"

\* the checks of kfree (lines 130-139)
kfree_check(h, ptr) ==
    IF ptr = NULL THEN "null"
    ELSE IF magic(h, ptr - HdrSize) # HDR_MAGIC THEN "CorruptionDetected"
    ELSE IF free(h, ptr - HdrSize) # 0 THEN "DoubleFree"
    ELSE "ok"

kfree(h0, ptr) ==
    Bind(h0, LAMBDA h :
    Bind(kfree_check(h, ptr), LAMBDA err :
         IF err = "ok"
         THEN [h |-> kfree_update(h, ptr - HdrSize), err |-> "ok"]
         ELSE [h |-> h, err |-> err]))

\* memset(ptr, 0, len): a word is cleared when its first byte is; bytes
\* beyond heap_end are outside the arena
memset(h0, ptr, len) ==
    Bind(h0, LAMBDA h :
         [h EXCEPT !.mem = [w \in DOMAIN h.mem |->
                               IF HeapBase + 8 * w >= ptr /\ HeapBase + 8 * w < ptr + len
                               THEN 0 ELSE h.mem[w]],
                   !.wild = h.wild \/ ptr + len > heap_end])

\* the first address behind the block whose payload is at ptr
block_end(h, ptr) == ptr - HdrSize + size(h, ptr - HdrSize)

kcalloc(h0, nmemb, sz) ==
    IF nmemb = 0 \/ sz = 0 THEN [h |-> h0, ret |-> NULL, dmg |-> FALSE]
    ELSE Bind((nmemb * sz) % WordMod, LAMBDA total :
              IF total \div nmemb # sz THEN [h |-> h0, ret |-> NULL, dmg |-> FALSE]
              ELSE Bind(kmalloc(h0, total), LAMBDA r :
                        IF r.ret # NULL /\ r.ret # Hang
                        THEN [h |-> memset(r.h, r.ret, total), ret |-> r.ret,
                              dmg |-> r.dmg \/ r.ret + total > block_end(r.h, r.ret)]
                        ELSE r))

\* the blocks of the free list, in list order
RECURSIVE free_list(_, _, _)
free_list(h, b, fuel) ==
    IF b = NULL \/ fuel = 0 THEN <<>>
    ELSE <<b>> \o free_list(h, next_free(h, b), fuel - 1)

\* heap_stats: the free blocks and their bytes.  heap_stats itself calls
\* malloc_init when free_list_head is NULL; this reading of the list does
\* so only for the untouched arena.
FreeBlocks(h) == free_list(IF Untouched(h) THEN malloc_init(h) ELSE h,
                           IF Untouched(h) THEN HeapBase ELSE h.head, HeapUnits)
FreeExtents(h) ==
    LET g == IF Untouched(h) THEN malloc_init(h) ELSE h
        l == FreeBlocks(h)
    IN  {<<l[i], size(g, l[i])>> : i \in 1 .. Len(l)}
RECURSIVE SumSizes(_)
SumSizes(S) ==
    IF S = {} THEN 0
    ELSE LET e == CHOOSE x \in S : TRUE
         IN  (e[2] - HdrSize) + SumSizes(S \ {e})
free_bytes(h) == SumSizes(FreeExtents(h))

\* the heap the variables hold
Heap == [mem |-> mem, head |-> free_list_head, alloc |-> heap_allocated, wild |-> FALSE]

\* what callers pass: sizes that are rounded, split, fit exactly, exceed
\* the arena, and wrap around in ALIGN_UP
ReqSizes == {0, 1, ALIGN, HEAP_SIZE, WordMod - 1}
\* kcalloc(nmemb, size): an empty request, one that fits, products that
\* overflow to zero and to a small size, and a product that only wraps
\* around in ALIGN_UP
CallocArgs == {<<0, 8>>, <<1, 8>>, <<2, WordMod \div 2>>,
               <<3, (WordMod \div 2) + 8>>, <<1, WordMod - 1>>}
\* every ALIGN-aligned address whose header lies inside the arena, and NULL
PtrArgs == {NULL} \cup {HeapBase + HdrSize + ALIGN * k : k \in 0 .. (HeapUnits - (HdrSize \div ALIGN) - 1)}

NoCall == [op |-> "none", ret |-> NULL, err |-> "none", wild |-> FALSE]
NoHeapLocals == [b |-> NULL, need |-> 0, ptr |-> NULL]

HeapInit ==
    /\ mem = [w \in 0 .. (HeapWords - 1) |-> 0]
    /\ free_list_head = NULL
    /\ heap_allocated = 0
    /\ live = {}
    /\ hcall = NoCall
    /\ damage = 0
    /\ lifo = <<>>
    /\ hpc = [c \in CPUs |-> "idle"]
    /\ hloc = [c \in CPUs |-> NoHeapLocals]


\* ------------------------------------------------------------------------
\* spinlock.c, spinlock_simple.c, irq.c, timer.c: locks and interrupts
\* ------------------------------------------------------------------------
\* the D, A, I and F mask bits of PSTATE
DaifAll == {"D", "A", "I", "F"}
\* the bits "msr daifset, #3" sets
IrqFiq == {"I", "F"}
\* the spinlock sources of the repository; no build file selects one
Builds == {"spinlock.c", "spinlock_simple.c"}
\* nested spin_lock_irqsave sections a driver enters
MaxIrqNest == 2

\* cpu_sched[c].lock, timer_locks[c], blockdev_lock
SchedLock(c) == <<"sched", c>>
TimerLock(c) == <<"timer", c>>
DevLock == <<"dev", 0>>
Locks == {SchedLock(c) : c \in CPUs} \cup {TimerLock(c) : c \in CPUs} \cup {DevLock}

\* a call that has not returned: the function, the position inside it, the
\* lock it takes, whether it takes it with spin_lock_irqsave, its flags
\* variable, the mask bits when it called spin_lock_irqsave (history), and
\* for an interrupt handler the saved program status
Frame(fn, at, lk, irq) ==
    [fn |-> fn, at |-> at, lk |-> lk, irq |-> irq,
     flags |-> {}, entry |-> {}, spsr |-> {}]

Top(c) == stack[c][Len(stack[c])]
SetTop(c, f) == [stack EXCEPT ![c][Len(stack[c])] = f]
Push(st, c, f) == [st EXCEPT ![c] = Append(st[c], f)]
Pop(c) == [stack EXCEPT ![c] = SubSeq(stack[c], 1, Len(stack[c]) - 1)]
Running(c, fn, at) ==
    /\ stack[c] # <<>>
    /\ Top(c).fn = fn
    /\ Top(c).at = at
\* core c runs a task: every call of kernel_main or secondary_cpu_entry and
\* every handler was left through the eret of context_switch
InTaskCode(c) == stack[c] = <<>>

\* a call of core c is between taking lock l and releasing it
HoldsAt(c, i, l) ==
    /\ stack[c][i].lk = l
    /\ stack[c][i].at \in {"cs", "unlock"}
Holds(c, l) == \E i \in DOMAIN stack[c] : HoldsAt(c, i, l)

\* reset: every exception masked, every lock SPINLOCK_INIT
LockInitOf(b) ==
    /\ daif = [c \in CPUs |-> DaifAll]
    /\ lockw = [l \in Locks |-> 0]
    /\ stack = [c \in CPUs |-> <<Frame("boot", "sched_init_cpu", DevLock, FALSE)>>]
    /\ touch = {}
    /\ build = b

LockInit == LockInitOf("spinlock.c")

\* ------------------------------------------------------------------------
\* kernel/mmu.c: the page tables of one task, scaled: PT_ENTRIES entries a
\* table, four levels, addresses of VaBits bits of which the top bit takes
\* no part in any table index (bits 48..63 of a real address)
\* ------------------------------------------------------------------------
PageShift == 1
VaBits == 6
PT_ENTRIES == 2
\* kmalloc(PAGE_SIZE) blocks the heap can hold
MaxPages == 7
\* mmu_map calls on the address space
MaxMapCalls == 2

PAGE_SIZE == 2 ^ PageShift
VaMod == 2 ^ VaBits
PROT_NONE == 0
PROT_READ == 1
PROT_WRITE == 2
PROT_EXEC == 4
\* the bit of (1ULL << 7), PTE_RO, in the low twelve bits of an address
RoBit == 128
\* the low twelve bits of a pointer kmalloc returns: aligned to ALIGN, not
\* to a page
LowBits == {0, RoBit}
\* the mmu.c files of the repository; no build file selects one
MmuBuilds == {"kernel/mmu.c", "mmu.c"}

\* task->pgtable_l0
Root == 0
L3 == 3
\* (va >> Lx_SHIFT) & (PT_ENTRIES - 1)
PtIdx(va, l) == (va \div (2 ^ (PageShift + L3 - l))) % PT_ENTRIES
\* va >> PAGE_SHIFT
PageOf(va) == va \div PAGE_SIZE
\* the leaf a page number selects: the index bits alone
LeafOf(vp) == vp % (PT_ENTRIES ^ (L3 + 1))
LeafSlots == 0 .. (PT_ENTRIES ^ (L3 + 1) - 1)
HasBit(x, b) == (x \div b) % 2 = 1

\* a table entry: bit 0, the block the address bits name, the low twelve
\* bits of the pointer that was or-ed in, bit 54 and bit 7
ZeroEntry == [valid |-> FALSE, out |-> 0, low |-> 0, uxn |-> FALSE, ro |-> FALSE]
\* (uint64_t)pt | PTE_VALID | PTE_TABLE
TableEntry(id, low) ==
    [valid |-> TRUE, out |-> id, low |-> low, uxn |-> FALSE, ro |-> HasBit(low, RoBit)]
\* page | PTE_VALID | PTE_PAGE | PTE_AF | PTE_SH_INNER | PTE_USER | PTE_RW
WalkLeaf(id, low) ==
    [valid |-> TRUE, out |-> id, low |-> low, uxn |-> FALSE, ro |-> HasBit(low, RoBit)]
\* phys | attr of mmu_map: PTE_RW is (0ULL << 7), so PROT_WRITE adds no bit;
\* PTE_UXN unless PROT_EXEC; PTE_VALID cleared for a guard
MapLeaf(id, low, prot, guard) ==
    [valid |-> guard = 0, out |-> id, low |-> low,
     uxn |-> ~ HasBit(prot, PROT_EXEC), ro |-> HasBit(low, RoBit)]
ZeroTable == [i \in 0 .. (PT_ENTRIES - 1) |-> ZeroEntry]
NoMap == [virt |-> 0, size |-> 0, prot |-> 0, guard |-> 0, ret |-> "none",
          first |-> 0, failed |-> FALSE, written |-> {}, tlbi |-> {},
          before |-> <<>>]

\* kmalloc(PAGE_SIZE) of pt_alloc_level and phys_alloc_page: block s.n + 1,
\* or NULL when the heap is used up or the allocation is the one that fails
pt_alloc(s, failat) ==
    IF s.n < MaxPages /\ s.k + 1 # failat
    THEN [ok |-> TRUE, id |-> s.n + 1, s |-> [s EXCEPT !.n = @ + 1, !.k = @ + 1]]
    ELSE [ok |-> FALSE, id |-> 0, s |-> [s EXCEPT !.k = @ + 1, !.failed = TRUE]]

\* mmu_walk_pte(task, va, 1) from table t of level l on.  A valid entry is
\* followed through pgd[idx] & PAGE_MASK: when the pointer stored there was
\* not page aligned the walk leaves the tables (ret "wild").
RECURSIVE mmu_walk_pte(_, _, _, _, _, _)
mmu_walk_pte(s, t, va, l, low, failat) ==
    Bind(s.pgt[t][PtIdx(va, l)], LAMBDA e :
      IF l = L3
      THEN IF e.valid
           THEN [s |-> s, pte |-> <<t, PtIdx(va, l)>>]
           ELSE Bind(pt_alloc(s, failat), LAMBDA a :
                  IF ~ a.ok
                  THEN [s |-> a.s, pte |-> <<>>]
                  ELSE [s |-> [a.s EXCEPT !.pgt[t][PtIdx(va, l)] = WalkLeaf(a.id, low),
                                          !.written = @ \cup {PageOf(va)}],
                        pte |-> <<t, PtIdx(va, l)>>])
      ELSE IF ~ e.valid
           THEN Bind(pt_alloc(s, failat), LAMBDA a :
                  IF ~ a.ok
                  THEN [s |-> a.s, pte |-> <<>>]
                  ELSE mmu_walk_pte(
                          [a.s EXCEPT !.pgt[t][PtIdx(va, l)] = TableEntry(a.id, low)],
                          a.id, va, l + 1, low, failat))
           ELSE IF e.low # 0
                THEN [s |-> [s EXCEPT !.ret = "wild"], pte |-> <<>>]
                ELSE mmu_walk_pte(s, e.out, va, l + 1, low, failat))

\* the loop of mmu_map and what follows it: mmu_tlb_invalidate_addr(virt,
\* size) with the virt the loop ended on; return 0
RECURSIVE mmu_map_loop(_, _, _, _, _, _, _)
mmu_map_loop(s, virt, end, prot, guard, low, failat) ==
    IF ~ (virt < end)
    THEN [s EXCEPT !.ret = "0", !.tlbi = {PageOf(virt)}]
    ELSE Bind(mmu_walk_pte(s, Root, virt, 0, low, failat), LAMBDA w :
           IF w.s.ret = "wild"
           THEN w.s
           ELSE IF w.pte = <<>>
           THEN [w.s EXCEPT !.ret = "-1"]
           ELSE Bind(pt_alloc(w.s, failat), LAMBDA a :
                  IF ~ a.ok
                  THEN [a.s EXCEPT !.ret = "-1"]
                  ELSE mmu_map_loop(
                          [a.s EXCEPT !.pgt[w.pte[1]][w.pte[2]] = MapLeaf(a.id, low, prot, guard),
                                      !.written = @ \cup {PageOf(virt)}],
                          (virt + PAGE_SIZE) % VaMod, end, prot, guard, low, failat)))

\* mmu_map(task, virt, size, prot, guard) of image b on tables p with n
\* blocks allocated: end = virt + size in the width of an address
mmu_map(b, p, n, virt, len, prot, guard, low, failat) ==
    LET s0 == [pgt |-> p, n |-> n, k |-> 0, ret |-> "run", failed |-> FALSE,
               written |-> {}, tlbi |-> {}]
    IN  IF b = "mmu.c"
        THEN [s0 EXCEPT !.ret = "0"]
        ELSE mmu_map_loop(s0, virt, (virt + len) % VaMod, prot, guard, low, failat)

\* the entry the table walk finds for page vp in tables p: ZeroEntry when a
\* table on the way is missing or is reached through an unaligned pointer
RECURSIVE leaf_from(_, _, _, _)
leaf_from(p, t, vp, l) ==
    Bind(p[t][PtIdx(vp * PAGE_SIZE, l)], LAMBDA e :
      IF l = L3 THEN e
      ELSE IF e.valid /\ e.low = 0 THEN leaf_from(p, e.out, vp, l + 1)
      ELSE ZeroEntry)
Leaf(p, vp) == leaf_from(p, Root, LeafOf(vp), 0)

\* mmu_init_task has allocated the root table; no mapping yet
MmuInitOf(b) ==
    /\ pgt = [t \in 0 .. MaxPages |-> ZeroTable]
    /\ nalloc = 0
    /\ mcalls = 0
    /\ mcall = NoMap
    /\ mbuild = b

MmuInit == MmuInitOf("kernel/mmu.c")

\* ------------------------------------------------------------------------
\* task.c: what one task_create call allocates, frees and enqueues
\* ------------------------------------------------------------------------
\* bits of the cpu_affinity argument (64 in the source)
AffBits == 10
AffValues == 0 .. (2 ^ AffBits - 1)
\* the allocations of a call: kmalloc(sizeof(task_t)), kmalloc(
\* KERNEL_STACK_SIZE), kmalloc(USER_STACK_SIZE), pt_alloc_level() of
\* mmu_init_task, and the tables and pages of its two mmu_map calls
Pieces == {"tcb", "kstack", "ustack", "pgt", "map"}
NoCreate == [c |-> 0, valid |-> TRUE, user |-> FALSE, fails |-> {}, aff |-> 0,
             ret |-> "none", errno |-> "none", tried |-> {}, held |-> {},
             enq |-> FALSE, cpu |-> 0, stored |-> 0]

CreateInit == tcall = NoCreate

\* ------------------------------------------------------------------------
\* task.c, lib.c: pid assignment
\* ------------------------------------------------------------------------
\* calls of task_create and fork that reach the pid assignment
MaxPidCalls == 4
\* __atomic_add_fetch(&next_pid, 1, __ATOMIC_SEQ_CST) is either one atomic
\* instruction of the core, or a call of the helper __aarch64_ldadd4_acq_rel
\* that lib.c defines
PidBuilds == {"inline", "lib.c"}
PidCallers == {"task_create", "fork"}
NoPid == [fn |-> "none", old |-> 0, tmp |-> 0]
PidInitAt(b, np) ==
    /\ next_pid = np
    /\ ppc = [c \in CPUs |-> "idle"]
    /\ preg = [c \in CPUs |-> NoPid]
    /\ pidlog = <<>>
    /\ pbuild = b
\* static volatile int next_pid = 1;
PidInitOf(b) == PidInitAt(b, 1)
PidInit == PidInitOf("lib.c")

\* ------------------------------------------------------------------------
\* task.c, kernel/mmu.c: fork and mmu_duplicate_pagetable
\* ------------------------------------------------------------------------
\* mmu_map calls of one page made on the address spaces
MaxForkMaps == 2
\* blocks of PAGE_SIZE the heap holds for these calls
MaxForkPages == 27
\* user pages mapped: 0 and 1 share their level 3 table, 0 and 4 differ in
\* the index into level 1
ForkVps == {0, 1, 4}
ForkProts == {PROT_READ, PROT_READ + PROT_WRITE}
\* the allocation of a fork call that returns NULL (0: none); in order: the
\* child's task_t, the tables of mmu_duplicate_pagetable, the kernel stack
ForkFailAts == 0 .. 4
\* the entries 0..255 and 256..511 of a level 0 table
UserHalf == 0 .. (PT_ENTRIES \div 2 - 1)
KernelHalf == (PT_ENTRIES \div 2) .. (PT_ENTRIES - 1)
UserVps == 0 .. (PT_ENTRIES ^ L3 * (PT_ENTRIES \div 2) - 1)
\* #define PTE_RW (0ULL << 7)
PTE_RW == 0
\* phys | PTE_VALID | PTE_BLOCK | PTE_AF | PTE_SH_INNER | PTE_RW
KernelEntry == [valid |-> TRUE, out |-> 0, low |-> 0, uxn |-> FALSE, ro |-> FALSE]
\* the two user tasks task_create made, one running on each core; x0 of
\* the caller holds the system call's argument
ForkParents == {nr_cpus + 1, nr_cpus + 2}
UserTcb(c, root) ==
    [pid |-> c + 2, parent |-> NULL, state |-> TASK_RUNNING, regs0 |-> 7,
     pgtable_l0 |-> root, next |-> NULL, prev |-> IdleOf(c),
     child_count |-> 0, children |-> {}, stack |-> c + 1]
ForkIdleTcb(c) ==
    [pid |-> 0, parent |-> NULL, state |-> TASK_READY, regs0 |-> 0,
     pgtable_l0 |-> NULL, next |-> nr_cpus + 1 + c, prev |-> NULL,
     child_count |-> 0, children |-> {}, stack |-> 0]
NoFork == [cpu |-> 0, caller |-> NULL, parent |-> NULL, child |-> NULL,
           ret |-> 0, failat |-> 0, failed |-> FALSE, made |-> FALSE,
           before |-> <<>>]
NoForkMap == [task |-> NULL, vp |-> 0, prot |-> 0, before |-> <<>>, calls |-> 0]
\* the state in which fork is called; the tables of task nr_cpus + 1 + c
\* start in block c; mmu_init_task copied the kernel half of kernel_pgt_l0
ForkInitOf(cur, kern) ==
    /\ ftask = [t \in 1 .. (2 * nr_cpus) |->
                  IF t <= nr_cpus THEN ForkIdleTcb(t - 1)
                  ELSE UserTcb(t - nr_cpus - 1, t - nr_cpus - 1)]
    /\ fsched = [c \in CPUs |->
                  [current |-> nr_cpus + 1 + c, runqueue_head |-> IdleOf(c),
                   runqueue_tail |-> nr_cpus + 1 + c]]
    /\ fcurrent = cur
    /\ fpgt = [t \in 0 .. MaxForkPages |->
                  IF t < nr_cpus
                  THEN [i \in 0 .. (PT_ENTRIES - 1) |->
                          IF i \in KernelHalf THEN kern ELSE ZeroEntry]
                  ELSE ZeroTable]
    /\ fnalloc = nr_cpus - 1
    /\ fcall = NoFork
    /\ fmap = NoForkMap
ForkInit == ForkInitOf(nr_cpus + 1, ZeroEntry)

\* the branch of mmu_duplicate_pagetable as its comments describe it: a
\* writable entry is made read-only
cow_mark_writable(e) == IF ~ e.ro THEN [e EXCEPT !.ro = TRUE] ELSE e
\* the if (old_l1[j] & PTE_RW) branch of mmu_duplicate_pagetable: the mask
\* is PTE_RW; e |= PTE_COW; e &= ~PTE_RW
cow_mark(e) == IF PTE_RW # 0 /\ ~ e.ro THEN [e EXCEPT !.ro = TRUE] ELSE e

\* pt_alloc_level() as the k-th allocation of the call: a zeroed block
fork_alloc(s, failat) ==
    IF s.k + 1 # failat
    THEN [ok |-> TRUE, id |-> s.n + 1,
          s |-> [s EXCEPT !.n = @ + 1, !.k = @ + 1, !.pgt[s.n + 1] = ZeroTable]]
    ELSE [ok |-> FALSE, id |-> NULL, s |-> [s EXCEPT !.k = @ + 1]]

\* the loop over the lower half of parent_l0 from entry i on
RECURSIVE dup_user(_, _, _, _, _)
dup_user(s, parent_l0, new_l0, i, failat) ==
    IF i \notin UserHalf
    THEN [s EXCEPT !.ret = 0, !.root = new_l0]
    ELSE IF ~ s.pgt[parent_l0][i].valid
    THEN dup_user(s, parent_l0, new_l0, i + 1, failat)
    ELSE Bind(fork_alloc(s, failat), LAMBDA a :
           IF ~ a.ok
           THEN [a.s EXCEPT !.ret = -1]
           ELSE Bind(s.pgt[parent_l0][i].out, LAMBDA old_l1 :
                  dup_user(
                    [a.s EXCEPT
                       !.pgt[a.id] = [j \in 0 .. (PT_ENTRIES - 1) |->
                           IF s.pgt[old_l1][j].valid
                           THEN cow_mark(s.pgt[old_l1][j]) ELSE ZeroEntry],
                       !.pgt[old_l1] = [j \in 0 .. (PT_ENTRIES - 1) |->
                           IF s.pgt[old_l1][j].valid
                           THEN cow_mark(s.pgt[old_l1][j]) ELSE s.pgt[old_l1][j]],
                       !.pgt[new_l0][i] = TableEntry(a.id, 0)],
                    parent_l0, new_l0, i + 1, failat)))

\* mmu_duplicate_pagetable(parent, child) of image b; s.root is
\* child->pgtable_l0, which memcpy set to the parent's
mmu_duplicate_pagetable(b, s, parent_l0, failat) ==
    IF b = "mmu.c"
    THEN [s EXCEPT !.ret = 0]
    ELSE Bind(fork_alloc(s, failat), LAMBDA a :
           IF ~ a.ok
           THEN [a.s EXCEPT !.ret = -1]
           ELSE dup_user(
                  [a.s EXCEPT !.pgt[a.id] = [i \in 0 .. (PT_ENTRIES - 1) |->
                      IF i \in KernelHalf THEN s.pgt[parent_l0][i] ELSE ZeroEntry]],
                  parent_l0, a.id, 0, failat))

\* mmu_walk_pte(task, va, 1) below table t of level l, then the body of
\* the loop of mmu_map for the page va is in: pointers page aligned, no
\* allocation fails
RECURSIVE fork_walk_map(_, _, _, _, _)
fork_walk_map(s, t, va, l, prot) ==
    Bind(s.pgt[t][PtIdx(va, l)], LAMBDA e :
      IF l = L3
      THEN Bind(IF e.valid THEN s
                ELSE [s EXCEPT !.n = @ + 1,
                               !.pgt[t][PtIdx(va, l)] = WalkLeaf(s.n + 1, 0)],
                LAMBDA w :
                  [w EXCEPT !.n = @ + 1,
                            !.pgt[t][PtIdx(va, l)] = MapLeaf(w.n + 1, 0, prot, 0)])
      ELSE IF e.valid
           THEN fork_walk_map(s, e.out, va, l + 1, prot)
           ELSE fork_walk_map(
                  [s EXCEPT !.n = @ + 1, !.pgt[s.n + 1] = ZeroTable,
                            !.pgt[t][PtIdx(va, l)] = TableEntry(s.n + 1, 0)],
                  s.n + 1, va, l + 1, prot))

\* the translation of user page vp by the tables under root r
Translate(p, r, vp) == leaf_from(p, r, vp, 0)
\* the tables of level l + 1 and below reached from the entries idx of
\* table t of level l
RECURSIVE TablesBelow(_, _, _, _)
TablesBelow(p, t, l, idx) ==
    IF l = L3 THEN {}
    ELSE UNION {{p[t][i].out} \cup TablesBelow(p, p[t][i].out, l + 1, 0 .. (PT_ENTRIES - 1)) :
                  i \in {j \in idx : p[t][j].valid}}
UserTables(p, r) == TablesBelow(p, r, 0, UserHalf)

\* ------------------------------------------------------------------------
\* task.c: execve
\* ------------------------------------------------------------------------
\* program headers of the file
MaxSegments == 2
\* p_vaddr >> PAGE_SHIFT of a segment, and the page of the new stack
ExecVps == {1, 4}
StackVp == 7
\* a program header: PT_LOAD or not, and the page it is loaded at
Segments == [load : BOOLEAN, vp : ExecVps]
SegLists == UNION {[1 .. n -> Segments] : n \in 0 .. MaxSegments}
\* what goes wrong in the call: a parameter is NULL, vfs_open returns NULL,
\* the header is short, the header is not an AArch64 executable, or at
\* program header `at` the header is short, kmalloc returns NULL, the
\* segment is short, mmu_map returns -1
ExecFaults == {"none", "param", "open", "ehdr", "format",
               "phdr", "alloc", "read", "map"}
ENOENT == "ENOENT"
EIO == "EIO"
ENOEXEC == "ENOEXEC"
\* sp_el0, elr_el1, spsr_el1 and x0..x2 of the task before it calls execve
OldContext == [sp_el0 |-> "old", elr_el1 |-> "old", spsr_el1 |-> "old",
               regs0 |-> "old", regs1 |-> "old", regs2 |-> "old"]
NoExec == [made |-> FALSE, ret |-> 0, errno |-> "none", fault |-> "none",
           at |-> 0, segs |-> <<>>, before |-> <<>>]
ExecInit ==
    /\ etask = OldContext
    /\ ecall = NoExec

\* the loop over the program headers from header i on; s.ret stays "run"
\* while no step failed
RECURSIVE exec_load(_, _, _, _, _, _, _)
exec_load(b, s, root, segs, i, fault, at) ==
    IF i > Len(segs) THEN s
    ELSE IF at = i /\ fault = "phdr" THEN [s EXCEPT !.ret = "-1", !.errno = EIO]
    ELSE IF ~ segs[i].load THEN exec_load(b, s, root, segs, i + 1, fault, at)
    ELSE IF at = i /\ fault = "alloc" THEN [s EXCEPT !.ret = "-1", !.errno = ENOMEM]
    ELSE IF at = i /\ fault = "read" THEN [s EXCEPT !.ret = "-1", !.errno = EIO]
    ELSE IF b = "mmu.c" THEN exec_load(b, s, root, segs, i + 1, fault, at)
    ELSE IF at = i /\ fault = "map" THEN [s EXCEPT !.ret = "-1", !.errno = ENOMEM]
    ELSE Bind(fork_walk_map([pgt |-> s.pgt, n |-> s.n], root,
                            segs[i].vp * PAGE_SIZE, 0, PROT_READ + PROT_EXEC),
           LAMBDA m :
             exec_load(b, [s EXCEPT !.pgt = m.pgt, !.n = m.n], root, segs,
                       i + 1, fault, at))

\* execve(pathname, argv, envp) of image b for a task with context ctx and
\* tables under root: the context, tables, result and errno afterwards.
\* mmu_free_usermemory is the empty function of lib.c.
execve(b, ctx, p, n, root, segs, fault, at) ==
    LET s0 == [ctx |-> ctx, pgt |-> p, n |-> n, ret |-> "run", errno |-> "none"]
    IN  IF fault = "param" THEN [s0 EXCEPT !.ret = "-1", !.errno = EINVAL]
        ELSE IF fault = "open" THEN [s0 EXCEPT !.ret = "-1", !.errno = ENOENT]
        ELSE IF fault = "ehdr" THEN [s0 EXCEPT !.ret = "-1", !.errno = EIO]
        ELSE IF fault = "format" THEN [s0 EXCEPT !.ret = "-1", !.errno = ENOEXEC]
        ELSE Bind(exec_load(b, s0, root, segs, 1, fault, at), LAMBDA l :
               IF l.ret = "-1" THEN l
               ELSE Bind(IF b = "mmu.c" THEN [pgt |-> l.pgt, n |-> l.n]
                         ELSE fork_walk_map([pgt |-> l.pgt, n |-> l.n], root,
                                            StackVp * PAGE_SIZE, 0,
                                            PROT_READ + PROT_WRITE),
                      LAMBDA m :
                        [l EXCEPT !.pgt = m.pgt, !.n = m.n, !.ret = "0",
                                  !.ctx = [sp_el0 |-> "sp", elr_el1 |-> "entry",
                                           spsr_el1 |-> "0", regs0 |-> "argc",
                                           regs1 |-> "argv_ptrs",
                                           regs2 |-> "envp_ptrs"]]))

\* ------------------------------------------------------------------------
\* timer.c: the timer list of a core
\* ------------------------------------------------------------------------
\* timer_t objects, as pointers 1 .. NumTimers
NumTimers == 2
\* the ticks get_time_ns() advances by
MaxTime == 2
\* ms arguments of timer_schedule, in ticks
Delays == {0, 1}
\* calls one callback makes
MaxCallbackCalls == 1
Timers == 1 .. NumTimers
\* timer_init(): memset(timer, 0, sizeof(*timer))
ZeroTimer == [next |-> NULL, expires_ns |-> 0, active |-> 0]
TimerIdle == [at |-> "idle", t |-> NULL, next |-> NULL, calls |-> 0]
\* a list state l is [tm, head, hung]: the timers, timer_lists[cpu], and
\* whether the call never left its loop
TimerInit ==
    /\ tm = [t \in Timers |-> ZeroTimer]
    /\ thead = NULL
    /\ tnow = 0
    /\ tq = TimerIdle
    /\ tcancelled = {}
    /\ tlate = FALSE
    /\ tnested = FALSE
MoreInit == PidInit /\ ForkInit /\ ExecInit /\ TimerInit

\* *p for a timer_t **p: slot 0 is &timer_lists[cpu], slot t is &t->next
slot_val(l, s) == IF s = 0 THEN l.head ELSE l.tm[s].next
set_slot(l, s, v) ==
    IF s = 0 THEN [l EXCEPT !.head = v] ELSE [l EXCEPT !.tm[s].next = v]

\* while (*p && (*p)->expires_ns < timer->expires_ns) p = &(*p)->next;
\* the slot the loop ends on, -1 when it does not end
RECURSIVE schedule_find(_, _, _, _)
schedule_find(l, s, expires, fuel) ==
    IF fuel = 0 THEN -1
    ELSE IF slot_val(l, s) # NULL /\ l.tm[slot_val(l, s)].expires_ns < expires
    THEN schedule_find(l, slot_val(l, s), expires, fuel - 1)
    ELSE s

\* timer_schedule(timer, ms) at time now
timer_schedule(l, t, ms, now) ==
    Bind([l EXCEPT !.tm[t].expires_ns = now + ms, !.tm[t].active = 1], LAMBDA l1 :
    Bind(schedule_find(l1, 0, now + ms, NumTimers + 1), LAMBDA p :
      IF p = -1 THEN [l1 EXCEPT !.hung = TRUE]
      ELSE set_slot([l1 EXCEPT !.tm[t].next = slot_val(l1, p)], p, t)))

\* the loop of timer_cancel: the slot with *p == timer, -2 when the list
\* ends without it, -1 when the loop does not end
RECURSIVE cancel_find(_, _, _, _)
cancel_find(l, s, t, fuel) ==
    IF fuel = 0 THEN -1
    ELSE IF slot_val(l, s) = NULL THEN -2
    ELSE IF slot_val(l, s) = t THEN s
    ELSE cancel_find(l, slot_val(l, s), t, fuel - 1)

\* timer_cancel(timer)
timer_cancel(l, t) ==
    Bind(cancel_find(l, 0, t, NumTimers + 1), LAMBDA p :
      IF p = -1 THEN [l EXCEPT !.hung = TRUE]
      ELSE IF p = -2 THEN l
      ELSE [set_slot(l, p, l.tm[t].next) EXCEPT !.tm[t].active = 0])

\* the timers met following next from timer_lists[cpu], at most fuel
RECURSIVE timer_walk(_, _, _)
timer_walk(m, t, fuel) ==
    IF t = NULL \/ fuel = 0 THEN <<>>
    ELSE <<t>> \o timer_walk(m, m[t].next, fuel - 1)

\* shared_global_test.c before test_shared_globals runs
TestInit ==
    /\ lock_value = 0
    /\ monitor = {}
    /\ shared_counter = 0
    /\ wpc = [w \in 1 .. NumIncTasks |-> "none"]
    /\ wreg = [w \in 1 .. NumIncTasks |-> [val |-> 0, i |-> 0, lock |-> FALSE]]
    /\ tpc = "create"

\* sched_init() followed by sched_init_cpu(c) on every core
SchedInit ==
    /\ task = [t \in 1 .. nr_cpus |-> IdleTcb(t - 1)]
    /\ cpu_sched = [c \in CPUs |->
          [current |-> NULL, idle_task |-> IdleOf(c),
           runqueue_head |-> IdleOf(c), runqueue_tail |-> IdleOf(c),
           lock |-> 0]]
    /\ current_task = NULL
    /\ waiting = {}
    /\ pc = [c \in CPUs |-> "boot"]
    /\ loc = [c \in CPUs |-> NoLocals]
    /\ ipi = {}

\* the queue of a core after sched_init_cpu: the idle task alone
PickInit ==
    /\ rq = <<[state |-> TASK_READY, priority |-> TASK_MIN_PRIORITY]>>
    /\ picked = NULL

Init ==
    /\ TestInit
    /\ SchedInit
    /\ PickInit
    /\ HeapInit
    /\ LockInit
    /\ MmuInit
    /\ CreateInit
    /\ MoreInit

\* ------------------------------------------------------------------------
\* schedule() (sched.c:178-204)
\* ------------------------------------------------------------------------
\* The first half of schedule() on core c, with task table tk:
\* spin_lock(&sched->lock); prev = sched->current;
\* next = pick_next_task(sched).  Core c's lock is held across steps by
\* schedule() on core c only, so it is free whenever core c calls schedule().
schedule_cs(cs, c) == [cs EXCEPT ![c].lock = 1]

schedule_loc(tk, cs, c) ==
    [NoLocals EXCEPT !.prev = cs[c].current, !.next = pick_next_task(tk, cs, c)]

\* The second half of schedule(): the task table after
\* if (prev && prev->state == TASK_RUNNING) prev->state = TASK_READY;
\* if (next) next->state = TASK_RUNNING
schedule_commit(tk, prev, next) ==
    LET tk1 == IF prev # NULL /\ tk[prev].state = TASK_RUNNING
               THEN [tk EXCEPT ![prev].state = TASK_READY]
               ELSE tk
    IN  IF next # NULL THEN [tk1 EXCEPT ![next].state = TASK_RUNNING] ELSE tk1

\* if (next) { ...; sched->current = next; current_task = next; }
\* spin_unlock(&sched->lock); if (prev != next) context_switch(prev, next).
\* The core then executes next, at its entry point or where it last called
\* schedule(): in both cases back in task code.
ScheduleCommit(c) ==
    LET prev == loc[c].prev
        next == loc[c].next
    IN  /\ pc[c] = "s_commit"
        /\ task' = schedule_commit(task, prev, next)
        /\ cpu_sched' = [cpu_sched EXCEPT
                            ![c].current = IF next # NULL THEN next ELSE @,
                            ![c].lock = 0]
        /\ current_task' = IF next # NULL THEN next ELSE current_task
        /\ loc' = [loc EXCEPT ![c] = NoLocals]
        /\ pc' = [pc EXCEPT ![c] = "run"]
        /\ UNCHANGED ipi
        /\ UNCHANGED testvars
        /\ UNCHANGED auxvars
        /\ UNCHANGED waiting

\* kernel_main on core 0: task_create("init", init_process, 10, 0),
\* current_task = init_task, then schedule()
KernelMain ==
    LET n == Cardinality(Allocated) + 1
        tcb == [state |-> TASK_READY, priority |-> 10, next |-> NULL,
                prev |-> NULL, cpu_affinity |-> Shl1(0), handler |-> SIG_DFL,
                pending |-> FALSE, blocked |-> FALSE]
        tk1 == enqueue_task_tk(task @@ (n :> tcb), cpu_sched, 0, n)
        cs1 == enqueue_task_cs(cpu_sched, 0, n)
    IN  /\ pc[0] = "boot"
        /\ cpu_sched[0].lock = 0
        /\ task' = tk1
        /\ cpu_sched' = schedule_cs(cs1, 0)
        /\ current_task' = n
        /\ loc' = [loc EXCEPT ![0] = schedule_loc(tk1, cs1, 0)]
        /\ pc' = [pc EXCEPT ![0] = "s_commit"]
        /\ UNCHANGED ipi
        /\ UNCHANGED testvars
        /\ UNCHANGED auxvars
        /\ UNCHANGED waiting

\* secondary_cpu_entry: the loop wfe; schedule()
SecondaryCpuEntry(c) ==
    /\ c # 0
    /\ pc[c] = "boot"
    /\ cpu_sched' = schedule_cs(cpu_sched, c)
    /\ loc' = [loc EXCEPT ![c] = schedule_loc(task, cpu_sched, c)]
    /\ pc' = [pc EXCEPT ![c] = "s_commit"]
    /\ UNCHANGED <<task, current_task, ipi>>
    /\ UNCHANGED testvars
    /\ UNCHANGED auxvars
    /\ UNCHANGED waiting

\* yield() by the running task, or schedule() from timer_irq_handler
Yield(c) ==
    /\ pc[c] = "run"
    /\ cpu_sched' = schedule_cs(cpu_sched, c)
    /\ loc' = [loc EXCEPT ![c] = schedule_loc(task, cpu_sched, c)]
    /\ pc' = [pc EXCEPT ![c] = "s_commit"]
    /\ UNCHANGED <<task, current_task, ipi>>
    /\ UNCHANGED testvars
    /\ UNCHANGED auxvars
    /\ UNCHANGED waiting

\* ipi_handler(IPI_RESCHEDULE): schedule()
IpiHandler(c) ==
    /\ pc[c] = "run"
    /\ c \in ipi
    /\ ipi' = ipi \ {c}
    /\ cpu_sched' = schedule_cs(cpu_sched, c)
    /\ loc' = [loc EXCEPT ![c] = schedule_loc(task, cpu_sched, c)]
    /\ pc' = [pc EXCEPT ![c] = "s_commit"]
    /\ UNCHANGED <<task, current_task>>
    /\ UNCHANGED testvars
    /\ UNCHANGED auxvars
    /\ UNCHANGED waiting

\* True when the code core c executes is task code (not the idle loop)
InTask(c) ==
    /\ pc[c] = "run"
    /\ cpu_sched[c].current # NULL
    /\ cpu_sched[c].current # cpu_sched[c].idle_task

\* ------------------------------------------------------------------------
\* task_block, task_wakeup (sched.c:212-230)
\* ------------------------------------------------------------------------
\* task_t *task = current_task; if (task) ...
TaskBlock(c, st) ==
    /\ InTask(c)
    /\ IF current_task # NULL
       THEN /\ loc' = [loc EXCEPT ![c].task = current_task, ![c].arg = st]
            /\ pc' = [pc EXCEPT ![c] = "tb_set"]
       ELSE UNCHANGED <<loc, pc>>
    /\ UNCHANGED <<task, cpu_sched, current_task, ipi>>
    /\ UNCHANGED testvars
    /\ UNCHANGED auxvars
    /\ UNCHANGED waiting

\* task->state = state; schedule()
TaskBlockSet(c) ==
    LET tk1 == [task EXCEPT ![loc[c].task].state = loc[c].arg]
    IN  /\ pc[c] = "tb_set"
        /\ task' = tk1
        /\ cpu_sched' = schedule_cs(cpu_sched, c)
        /\ loc' = [loc EXCEPT ![c] = schedule_loc(tk1, cpu_sched, c)]
        /\ pc' = [pc EXCEPT ![c] = "s_commit"]
        /\ waiting' = IF loc[c].arg = TASK_BLOCKED
                      THEN waiting \cup {cpu_sched[c].current}
                      ELSE waiting
        /\ UNCHANGED <<current_task, ipi>>
        /\ UNCHANGED testvars
        /\ UNCHANGED auxvars

\* a call task_wakeup(t), from task code or from an interrupt handler
TaskWakeup(c, t) ==
    /\ pc[c] = "run"
    /\ loc' = [loc EXCEPT ![c].task = t]
    /\ pc' = [pc EXCEPT ![c] = "wk_check"]
    /\ waiting' = waiting \ {t}
    /\ UNCHANGED <<task, cpu_sched, current_task, ipi>>
    /\ UNCHANGED testvars
    /\ UNCHANGED auxvars

\* task_wakeup without the state test
task_wakeup_any(tk, t) == t # NULL

\* the guard of task_wakeup: task && task->state == TASK_BLOCKED
task_wakeup_guard(tk, t) == t # NULL /\ tk[t].state = TASK_BLOCKED

\* if (task && task->state == TASK_BLOCKED)
TaskWakeupCheck(c) ==
    /\ pc[c] = "wk_check"
    /\ IF task_wakeup_guard(task, loc[c].task)
       THEN /\ pc' = [pc EXCEPT ![c] = "wk_set"]
            /\ loc' = loc
       ELSE /\ pc' = [pc EXCEPT ![c] = "run"]
            /\ loc' = [loc EXCEPT ![c] = NoLocals]
    /\ UNCHANGED <<task, cpu_sched, current_task, ipi>>
    /\ UNCHANGED testvars
    /\ UNCHANGED auxvars
    /\ UNCHANGED waiting

\* task->state = TASK_READY; task_cpu = ctz(task->cpu_affinity);
\* if (task_cpu != get_cpu_id()) send_ipi(1ULL << task_cpu, IPI_RESCHEDULE, 0)
TaskWakeupSet(c) ==
    LET t == loc[c].task
        task_cpu == Ctz(task[t].cpu_affinity)
    IN  /\ pc[c] = "wk_set"
        /\ task' = [task EXCEPT ![t].state = TASK_READY]
        /\ ipi' = IF task_cpu # c THEN ipi \cup {task_cpu} ELSE ipi
        /\ loc' = [loc EXCEPT ![c] = NoLocals]
        /\ pc' = [pc EXCEPT ![c] = "run"]
        /\ UNCHANGED <<cpu_sched, current_task>>
        /\ UNCHANGED testvars
        /\ UNCHANGED auxvars
        /\ UNCHANGED waiting

\* ------------------------------------------------------------------------
\* task_create, fork (task.c:19-163)
\* ------------------------------------------------------------------------
\* the range test of task_create against one core instead of MAX_CPUS
target_cpu_one(aff) == IF Ctz(aff) >= 1 THEN 0 ELSE Ctz(aff)

\* the core task_create enqueues on: ctz(cpu_affinity), 0 when out of range
target_cpu(aff) == IF Ctz(aff) >= MAX_CPUS THEN 0 ELSE Ctz(aff)

\* task_create up to the spin_lock of the target core.  valid: name and entry
\* are non-null; ok: every kmalloc of the call returned memory; limit: the
\* task control blocks the model allocates.  A failed call leaves errno in
\* loc[c].errno.
task_create(c, valid, ok, priority, aff, limit) ==
    LET n == Cardinality(Allocated) + 1
        tcb == [state |-> TASK_READY, priority |-> priority, next |-> NULL,
                prev |-> NULL,
                cpu_affinity |-> IF aff # 0 THEN aff ELSE Shl1(c),
                handler |-> SIG_DFL, pending |-> FALSE, blocked |-> FALSE]
    IN  /\ InTask(c)
        /\ IF valid /\ ok
           THEN /\ n <= limit
                /\ task' = task @@ (n :> tcb)
                /\ loc' = [loc EXCEPT ![c].task = n]
                /\ pc' = [pc EXCEPT ![c] = "tc_enq"]
           ELSE /\ task' = task
                /\ loc' = [loc EXCEPT ![c].task = NULL,
                                      ![c].errno = IF valid THEN ENOMEM ELSE EINVAL]
                /\ pc' = [pc EXCEPT ![c] = "tc_ret"]
        /\ UNCHANGED <<cpu_sched, current_task, ipi>>
        /\ UNCHANGED testvars
        /\ UNCHANGED auxvars
        /\ UNCHANGED waiting

TaskCreate(c, valid, ok, priority, aff) ==
    task_create(c, valid, ok, priority, aff, MaxTasks)

\* spin_lock(&sched->lock); enqueue_task(sched, task); spin_unlock;
\* return task
TaskCreateEnqueue(c) ==
    LET t == loc[c].task
        cpu == target_cpu(task[t].cpu_affinity)
    IN  /\ pc[c] = "tc_enq"
        /\ cpu_sched[cpu].lock = 0
        /\ task' = enqueue_task_tk(task, cpu_sched, cpu, t)
        /\ cpu_sched' = enqueue_task_cs(cpu_sched, cpu, t)
        /\ loc' = [loc EXCEPT ![c] = NoLocals]
        /\ pc' = [pc EXCEPT ![c] = "run"]
        /\ UNCHANGED <<current_task, ipi>>
        /\ UNCHANGED testvars
        /\ UNCHANGED auxvars
        /\ UNCHANGED waiting

\* return NULL (invalid parameters, or a failed allocation unwound)
TaskCreateReturn(c) ==
    /\ pc[c] = "tc_ret"
    /\ loc' = [loc EXCEPT ![c] = NoLocals]
    /\ pc' = [pc EXCEPT ![c] = "run"]
    /\ UNCHANGED <<task, cpu_sched, current_task, ipi>>
    /\ UNCHANGED testvars
    /\ UNCHANGED auxvars
    /\ UNCHANGED waiting

\* fork up to the spin_lock_irqsave of the calling core: the child is a copy
\* of *current_task.  ok: every allocation of the call succeeded; when one
\* fails the call returns -1 and the child is freed.
Fork(c, ok) ==
    LET n == Cardinality(Allocated) + 1
        parent == current_task
    IN  /\ InTask(c)
        /\ parent # NULL
        /\ IF ok
           THEN /\ n <= MaxTasks
                /\ task' = task @@ (n :> [task[parent] EXCEPT !.state = TASK_READY])
                /\ loc' = [loc EXCEPT ![c].task = n]
                /\ pc' = [pc EXCEPT ![c] = "fk_enq"]
           ELSE UNCHANGED <<task, loc, pc>>
        /\ UNCHANGED <<cpu_sched, current_task, ipi>>
        /\ UNCHANGED testvars
        /\ UNCHANGED auxvars
        /\ UNCHANGED waiting

\* spin_lock_irqsave(&sched->lock); enqueue_task(sched, child); unlock;
\* return child_pid
ForkEnqueue(c) ==
    LET t == loc[c].task
    IN  /\ pc[c] = "fk_enq"
        /\ cpu_sched[c].lock = 0
        /\ task' = enqueue_task_tk(task, cpu_sched, c, t)
        /\ cpu_sched' = enqueue_task_cs(cpu_sched, c, t)
        /\ loc' = [loc EXCEPT ![c] = NoLocals]
        /\ pc' = [pc EXCEPT ![c] = "run"]
        /\ UNCHANGED <<current_task, ipi>>
        /\ UNCHANGED testvars
        /\ UNCHANGED auxvars
        /\ UNCHANGED waiting

\* ------------------------------------------------------------------------
\* signal.c: signal(SIGSEGV, h), handle_exception, deliver_signals
\* ------------------------------------------------------------------------
\* signal(11, h): current_task->signal_state.handlers[11] = h
Signal(c, h) ==
    /\ InTask(c)
    /\ current_task # NULL
    /\ task' = [task EXCEPT ![current_task].handler = h]
    /\ UNCHANGED <<cpu_sched, current_task, pc, loc, ipi>>
    /\ UNCHANGED testvars
    /\ UNCHANGED auxvars
    /\ UNCHANGED waiting

\* The task control blocks after deliver_signals() has handled signal 11 of
\* task t: nothing when no unblocked signal is pending; else the pending bit
\* is cleared and the handler decides: SIG_IGN continue, SIG_DFL
\* task->state = TASK_ZOMBIE, a user handler runs and the signal is blocked
deliver_signals(tk, t) ==
    IF ~tk[t].pending \/ tk[t].blocked THEN tk
    ELSE IF tk[t].handler = SIG_IGN THEN [tk EXCEPT ![t].pending = FALSE]
    ELSE IF tk[t].handler = SIG_DFL
         THEN [tk EXCEPT ![t].pending = FALSE, ![t].state = TASK_ZOMBIE]
    ELSE [tk EXCEPT ![t].pending = FALSE, ![t].blocked = TRUE]

\* deliver_signals() calls schedule() in the SIG_DFL case only
delivers_default(tk, t) ==
    tk[t].pending /\ ~tk[t].blocked /\ tk[t].handler = SIG_DFL

\* handle_exception: task = current_task; halt_system() when it is null,
\* else task->signal_state.pending |= 1 << 11 and deliver_signals()
HandleException(c) ==
    LET t == current_task
        tk1 == [task EXCEPT ![t].pending = TRUE]
        tk2 == deliver_signals(tk1, t)
    IN  /\ InTask(c)
        /\ IF t = NULL
           THEN /\ pc' = [pc EXCEPT ![c] = "halted"]
                /\ UNCHANGED <<task, cpu_sched, loc>>
           ELSE IF delivers_default(tk1, t)
           THEN /\ task' = tk2
                /\ cpu_sched' = schedule_cs(cpu_sched, c)
                /\ loc' = [loc EXCEPT ![c] = schedule_loc(tk2, cpu_sched, c)]
                /\ pc' = [pc EXCEPT ![c] = "s_commit"]
           ELSE /\ task' = tk2
                /\ UNCHANGED <<cpu_sched, loc, pc>>
        /\ UNCHANGED <<current_task, ipi>>
        /\ UNCHANGED testvars
        /\ UNCHANGED auxvars
        /\ UNCHANGED waiting

\* ------------------------------------------------------------------------
\* spinlock.c and the shared counter test (Tests/Tests/shared_global_test.c)
\* with every increment bracketed by spin_lock/spin_unlock
\* ------------------------------------------------------------------------
IncTasks == 1 .. NumIncTasks

\* test_shared_globals: the three task_create calls.  task_increment as
\* written (lines 11-16) increments without taking a lock (bracket = FALSE);
\* bracket = TRUE is the same loop with each increment between spin_lock and
\* spin_unlock of spinlock.c.
TestCreate(bracket) ==
    /\ tpc = "create"
    /\ wpc' = [w \in IncTasks |->
                 IF Increments = 0 THEN "exit"
                 ELSE IF bracket THEN "ldaxr" ELSE "load"]
    /\ wreg' = [w \in IncTasks |-> [val |-> 0, i |-> 0, lock |-> bracket]]
    /\ tpc' = "wait1"
    /\ UNCHANGED <<lock_value, monitor, shared_counter>>
    /\ UNCHANGED schedvars
    /\ UNCHANGED auxvars
    /\ UNCHANGED waiting

\* wait(NULL), three times, then the comparison with 30000.  wait() is
\* waitpid(-1, wstatus, 0), a stub that returns -1 at once: the caller is
\* never blocked.
TestWait ==
    /\ tpc \in {"wait1", "wait2", "wait3"}
    /\ tpc' = CASE tpc = "wait1" -> "wait2"
                [] tpc = "wait2" -> "wait3"
                [] tpc = "wait3" -> "check"
    /\ UNCHANGED <<lock_value, monitor, shared_counter, wpc, wreg>>
    /\ UNCHANGED schedvars
    /\ UNCHANGED auxvars
    /\ UNCHANGED waiting

\* spin_lock: ldaxr loads the lock word and sets the exclusive monitor;
\* cbnz with a non-zero word forces status = 1 and the loop retries
SpinLdaxr(w) ==
    /\ wpc[w] = "ldaxr"
    /\ monitor' = monitor \cup {w}
    /\ wpc' = [wpc EXCEPT ![w] = IF lock_value # 0 THEN "ldaxr" ELSE "stxr"]
    /\ UNCHANGED <<lock_value, shared_counter, wreg, tpc>>
    /\ UNCHANGED schedvars
    /\ UNCHANGED auxvars
    /\ UNCHANGED waiting

\* stxr stores 1 when the monitor is still held (status 0) and fails
\* otherwise (status 1, retry); a store clears every monitor on the word
SpinStxr(w) ==
    /\ wpc[w] = "stxr"
    /\ IF w \in monitor
       THEN /\ lock_value' = 1
            /\ monitor' = {}
            /\ wpc' = [wpc EXCEPT ![w] = "load"]
       ELSE /\ wpc' = [wpc EXCEPT ![w] = "ldaxr"]
            /\ UNCHANGED <<lock_value, monitor>>
    /\ UNCHANGED <<shared_counter, wreg, tpc>>
    /\ UNCHANGED schedvars
    /\ UNCHANGED auxvars
    /\ UNCHANGED waiting

\* shared_counter++: the load
IncLoad(w) ==
    /\ wpc[w] = "load"
    /\ wreg' = [wreg EXCEPT ![w].val = shared_counter]
    /\ wpc' = [wpc EXCEPT ![w] = "store"]
    /\ UNCHANGED <<lock_value, monitor, shared_counter, tpc>>
    /\ UNCHANGED schedvars
    /\ UNCHANGED auxvars
    /\ UNCHANGED waiting

\* shared_counter++: the store; without the lock, then i++ and the loop test
IncStore(w) ==
    /\ wpc[w] = "store"
    /\ shared_counter' = wreg[w].val + 1
    /\ IF wreg[w].lock
       THEN /\ wpc' = [wpc EXCEPT ![w] = "unlock"]
            /\ UNCHANGED wreg
       ELSE /\ wreg' = [wreg EXCEPT ![w].i = @ + 1, ![w].val = 0]
            /\ wpc' = [wpc EXCEPT ![w] =
                         IF wreg[w].i + 1 < Increments THEN "load" ELSE "exit"]
    /\ UNCHANGED <<lock_value, monitor, tpc>>
    /\ UNCHANGED schedvars
    /\ UNCHANGED auxvars
    /\ UNCHANGED waiting

\* spin_unlock: stlr wzr; then i++ and the loop test
SpinUnlock(w) ==
    /\ wpc[w] = "unlock"
    /\ lock_value' = 0
    /\ monitor' = {}
    /\ wreg' = [wreg EXCEPT ![w].i = @ + 1, ![w].val = 0]
    /\ wpc' = [wpc EXCEPT ![w] =
                 IF wreg[w].i + 1 < Increments THEN "ldaxr" ELSE "exit"]
    /\ UNCHANGED <<shared_counter, tpc>>
    /\ UNCHANGED schedvars
    /\ UNCHANGED auxvars
    /\ UNCHANGED waiting

NextTest ==
    \/ \E bracket \in BOOLEAN : TestCreate(bracket)
    \/ TestWait
    \/ \E w \in IncTasks : SpinLdaxr(w)
    \/ \E w \in IncTasks : SpinStxr(w)
    \/ \E w \in IncTasks : IncLoad(w)
    \/ \E w \in IncTasks : IncStore(w)
    \/ \E w \in IncTasks : SpinUnlock(w)

SpecTest == Init /\ [][NextTest]_vars

\* ------------------------------------------------------------------------
\* The kernel on nr_cpus cores
\* ------------------------------------------------------------------------
Next ==
    \/ KernelMain
    \/ \E c \in CPUs : SecondaryCpuEntry(c)
    \/ \E c \in CPUs : Yield(c)
    \/ \E c \in CPUs : IpiHandler(c)
    \/ \E c \in CPUs : ScheduleCommit(c)
    \/ \E c \in CPUs, st \in BlockStates : TaskBlock(c, st)
    \/ \E c \in CPUs : TaskBlockSet(c)
    \/ \E c \in CPUs, t \in Allocated \cup {NULL} : TaskWakeup(c, t)
    \/ \E c \in CPUs : TaskWakeupCheck(c)
    \/ \E c \in CPUs : TaskWakeupSet(c)
    \/ \E c \in CPUs, valid \in BOOLEAN, ok \in BOOLEAN,
          priority \in Priorities, aff \in Affinities :
            TaskCreate(c, valid, ok, priority, aff)
    \/ \E c \in CPUs : TaskCreateEnqueue(c)
    \/ \E c \in CPUs : TaskCreateReturn(c)
    \/ \E c \in CPUs, ok \in BOOLEAN : Fork(c, ok)
    \/ \E c \in CPUs : ForkEnqueue(c)
    \/ \E c \in CPUs : HandleException(c)

Spec == Init /\ [][Next]_vars

\* ------------------------------------------------------------------------
\* The yield stress test (Tests/Tests/100_task_stress.c): the init task
\* creates tasks of priority 10 with default affinity; every task then only
\* calls yield() in a loop
\* ------------------------------------------------------------------------
StressCreate(c) ==
    task_create(c, TRUE, TRUE, 10, 0, nr_cpus + MaxYielders)

CoreStepYield(c) ==
    \/ Yield(c)
    \/ ScheduleCommit(c)
    \/ StressCreate(c)
    \/ TaskCreateEnqueue(c)

NextYield ==
    \/ KernelMain
    \/ \E c \in CPUs : SecondaryCpuEntry(c)
    \/ \E c \in CPUs : CoreStepYield(c)

\* every core keeps executing: a task's loop calls yield() again and again
SpecYield ==
    /\ Init
    /\ [][NextYield]_vars
    /\ WF_vars(KernelMain)
    /\ \A c \in CPUs : WF_vars(SecondaryCpuEntry(c))
    /\ \A c \in CPUs : WF_vars(CoreStepYield(c))

\* ------------------------------------------------------------------------
\* The kernel with tasks that register signal handlers and fault
\* ------------------------------------------------------------------------
NextSig ==
    \/ KernelMain
    \/ \E c \in CPUs : SecondaryCpuEntry(c)
    \/ \E c \in CPUs : Yield(c)
    \/ \E c \in CPUs : ScheduleCommit(c)
    \/ \E c \in CPUs, aff \in Affinities : TaskCreate(c, TRUE, TRUE, 10, aff)
    \/ \E c \in CPUs : TaskCreateEnqueue(c)
    \/ \E c \in CPUs, h \in Handlers : Signal(c, h)
    \/ \E c \in CPUs : HandleException(c)

SpecSig == Init /\ [][NextSig]_vars

\* ------------------------------------------------------------------------
\* pick_next_task on an arbitrary ready queue (sched.c:105-117)
\* ------------------------------------------------------------------------
\* task->priority is an int that task_create stores unchecked (task.c:72)
PickPriorities == {-1, TASK_MIN_PRIORITY, 10}
PickEntries == [state : TaskStates, priority : PickPriorities]
\* the idle task sched_init_cpu enqueued first, in any state
PickIdleEntries == [state : TaskStates, priority : {TASK_MIN_PRIORITY}]

\* the task table and scheduler structure of a core whose queue is q
pick_tk(q) ==
    [i \in 1 .. Len(q) |->
        [state |-> q[i].state, priority |-> q[i].priority,
         next |-> IF i < Len(q) THEN i + 1 ELSE NULL,
         prev |-> i - 1]]
pick_cs(q) ==
    [c \in {0} |-> [current |-> NULL, idle_task |-> 1, runqueue_head |-> 1,
                    runqueue_tail |-> Len(q), lock |-> 1]]

InitPick ==
    /\ TestInit
    /\ SchedInit
    /\ HeapInit
    /\ LockInit
    /\ MmuInit
    /\ CreateInit
    /\ MoreInit
    /\ \E n \in 0 .. (MaxQueue - 1) :
          \E idle \in PickIdleEntries, rest \in [1 .. n -> PickEntries] :
             rq = <<idle>> \o rest
    /\ picked = NULL

\* next = pick_next_task(sched)
PickCall ==
    /\ picked = NULL
    /\ picked' = pick_next_task(pick_tk(rq), pick_cs(rq), 0)
    /\ UNCHANGED rq
    /\ UNCHANGED <<schedvars, testvars, waiting, heapvars, smpvars, extvars>>

NextPick == PickCall

SpecPick == InitPick /\ [][NextPick]_vars

\* ---------------------------------------------------------------------
\* The allocator called from one core: every call runs to completion.
\* ---------------------------------------------------------------------
HeapIdle == \A c \in CPUs : hpc[c] = "idle"

\* damage after a call: dmg says the call damaged the arena (for a call
\* of several steps: its update met a heap in which its scan or checks
\* would have ended otherwise), done that it changed the heap
Damage(dmg, done) ==
    IF damage = 0 THEN (IF dmg THEN 1 ELSE 0)
    ELSE IF done THEN damage + 1 ELSE damage

Kmalloc(n) ==
    /\ HeapIdle
    /\ damage <= MaxAfter
    /\ \E r \in {kmalloc(Heap, n)} :
           /\ r.ret # Hang
           /\ damage' = Damage(r.dmg, r.ret # NULL)
           /\ mem' = r.h.mem
           /\ free_list_head' = r.h.head
           /\ heap_allocated' = r.h.alloc
           /\ live' = IF r.ret # NULL THEN live \cup {r.ret} ELSE live
           /\ hcall' = [NoCall EXCEPT !.op = "kmalloc", !.ret = r.ret, !.wild = r.h.wild]
           /\ lifo' = IF r.ret = NULL THEN lifo
                      ELSE LET e == [ptr |-> r.ret, extents |-> FreeExtents(Heap),
                                     bytes |-> free_bytes(Heap)]
                           IN  IF Len(lifo) < MaxNest THEN Append(lifo, e)
                               ELSE Append(Tail(lifo), e)
    /\ UNCHANGED <<schedvars, testvars, waiting, pickvars, smpvars, extvars>>

Kfree(ptr) ==
    /\ HeapIdle
    /\ damage <= MaxAfter
    /\ \E r \in {kfree(Heap, ptr)} :
           /\ mem' = r.h.mem
           /\ free_list_head' = r.h.head
           /\ heap_allocated' = r.h.alloc
           /\ live' = IF r.err = "ok" THEN live \ {ptr} ELSE live
           /\ damage' = Damage(FALSE, r.err = "ok")
           /\ hcall' = [NoCall EXCEPT !.op = "kfree", !.err = r.err, !.wild = r.h.wild]
           /\ lifo' = IF r.err # "ok" THEN lifo
                      ELSE IF lifo # <<>> /\ lifo[Len(lifo)].ptr = ptr
                      THEN SubSeq(lifo, 1, Len(lifo) - 1)
                      ELSE <<>>
    /\ UNCHANGED <<schedvars, testvars, waiting, pickvars, smpvars, extvars>>

Kcalloc(nmemb, sz) ==
    /\ HeapIdle
    /\ damage <= MaxAfter
    /\ \E r \in {kcalloc(Heap, nmemb, sz)} :
           /\ r.ret # Hang
           /\ damage' = Damage(r.dmg, r.ret # NULL)
           /\ mem' = r.h.mem
           /\ free_list_head' = r.h.head
           /\ heap_allocated' = r.h.alloc
           /\ live' = IF r.ret # NULL THEN live \cup {r.ret} ELSE live
           /\ hcall' = [NoCall EXCEPT !.op = "kcalloc", !.ret = r.ret, !.wild = r.h.wild]
           /\ lifo' = IF r.ret = NULL THEN lifo ELSE <<>>
    /\ UNCHANGED <<schedvars, testvars, waiting, pickvars, smpvars, extvars>>

NextHeap ==
    \/ \E n \in ReqSizes : Kmalloc(n)
    \/ \E ptr \in PtrArgs : Kfree(ptr)
    \/ \E a \in CallocArgs : Kcalloc(a[1], a[2])

SpecHeap == Init /\ [][NextHeap]_vars

\* ---------------------------------------------------------------------
\* The allocator called from several cores.  malloc.c takes no lock, so
\* a call of one core can run between the scan and the update of a
\* kmalloc, and between the checks and the update of a kfree, of another.
\* ---------------------------------------------------------------------
HeapFrame == UNCHANGED <<schedvars, testvars, waiting, pickvars, extvars>>

\* kmalloc(n) on core c up to the end of its scan; a call that returns
\* NULL ends here
KmallocScan(c, n) ==
    /\ hpc[c] = "idle"
    /\ damage <= MaxRaced
    /\ n # 0
    /\ \E s \in {kmalloc_scan(Heap, n)} :
           /\ s.b # Hang
           /\ mem' = s.h.mem
           /\ free_list_head' = s.h.head
           /\ heap_allocated' = s.h.alloc
           /\ damage' = Damage(s.dmg, FALSE)
           /\ IF s.b = NULL
              THEN /\ hcall' = [NoCall EXCEPT !.op = "kmalloc"]
                   /\ UNCHANGED <<hpc, hloc>>
              ELSE /\ hpc' = [hpc EXCEPT ![c] = "km_take"]
                   /\ hloc' = [hloc EXCEPT ![c] = [NoHeapLocals EXCEPT !.b = s.b, !.need = s.need]]
                   /\ UNCHANGED hcall
    /\ UNCHANGED <<live, lifo>>
    /\ HeapFrame

\* the rest of kmalloc on core c for the block its scan found
KmallocTake(c) ==
    /\ hpc[c] = "km_take"
    /\ \E f \in {kmalloc_finish(Heap, hloc[c].b, hloc[c].need)} :
           /\ mem' = f.h.mem
           /\ free_list_head' = f.h.head
           /\ heap_allocated' = f.h.alloc
           /\ live' = live \cup {f.ret}
           /\ hcall' = [NoCall EXCEPT !.op = "kmalloc", !.ret = f.ret, !.wild = f.h.wild]
           /\ damage' = Damage(first_fit(Heap, free_list_head, hloc[c].need, HeapUnits) # hloc[c].b, TRUE)
    /\ hpc' = [hpc EXCEPT ![c] = "idle"]
    /\ hloc' = [hloc EXCEPT ![c] = NoHeapLocals]
    /\ UNCHANGED lifo
    /\ HeapFrame

\* kfree(ptr) on core c up to the end of its checks; a call that is
\* rejected ends here
KfreeCheck(c, ptr) ==
    /\ hpc[c] = "idle"
    /\ damage <= MaxRaced
    /\ IF kfree_check(Heap, ptr) = "ok"
       THEN /\ hpc' = [hpc EXCEPT ![c] = "kf_update"]
            /\ hloc' = [hloc EXCEPT ![c] = [NoHeapLocals EXCEPT !.ptr = ptr]]
            /\ UNCHANGED hcall
       ELSE /\ hcall' = [NoCall EXCEPT !.op = "kfree", !.err = kfree_check(Heap, ptr)]
            /\ UNCHANGED <<hpc, hloc>>
    /\ UNCHANGED <<mem, free_list_head, heap_allocated, live, damage, lifo>>
    /\ HeapFrame

\* the rest of kfree on core c
KfreeUpdate(c) ==
    /\ hpc[c] = "kf_update"
    /\ \E h \in {kfree_update(Heap, hloc[c].ptr - HdrSize)} :
           /\ mem' = h.mem
           /\ free_list_head' = h.head
           /\ heap_allocated' = h.alloc
           /\ live' = live \ {hloc[c].ptr}
           /\ hcall' = [NoCall EXCEPT !.op = "kfree", !.err = "ok", !.wild = h.wild]
           /\ damage' = Damage(kfree_check(Heap, hloc[c].ptr) # "ok", TRUE)
    /\ hpc' = [hpc EXCEPT ![c] = "idle"]
    /\ hloc' = [hloc EXCEPT ![c] = NoHeapLocals]
    /\ UNCHANGED lifo
    /\ HeapFrame

NextHeapSmp ==
    \/ \E c \in CPUs, n \in ReqSizes : KmallocScan(c, n)
    \/ \E c \in CPUs : KmallocTake(c)
    \/ \E c \in CPUs, ptr \in PtrArgs : KfreeCheck(c, ptr)
    \/ \E c \in CPUs : KfreeUpdate(c)

SpecHeapSmp == Init /\ [][NextHeapSmp]_vars

\* ------------------------------------------------------------------------
\* locks and interrupts: kernel_main, secondary_cpu_entry, the calls of a
\* task, the spinlock primitives and the interrupt handlers, one statement
\* a step
\* ------------------------------------------------------------------------
IrqFrame == UNCHANGED <<schedvars, testvars, waiting, pickvars, heapvars, smpvars, mmuvars, tcall, morevars>>

\* sched_init_cpu(c): sched->idle_task = task; enqueue_task(sched, task)
SchedInitCpu(c) ==
    /\ Running(c, "boot", "sched_init_cpu")
    /\ stack' = SetTop(c, [Top(c) EXCEPT !.at = "irq_init"])
    /\ touch' = {[by |-> c, of |-> c]}
    /\ UNCHANGED <<daif, lockw, build>>
    /\ IrqFrame

\* irq_init(): msr daifclr, #2
IrqInit(c) ==
    /\ Running(c, "boot", "irq_init")
    /\ daif' = [daif EXCEPT ![c] = @ \ {"I"}]
    /\ stack' = SetTop(c, [Top(c) EXCEPT !.at = "timer_init_cpu"])
    /\ touch' = {}
    /\ UNCHANGED <<lockw, build>>
    /\ IrqFrame

\* timer_init_cpu(): the tick of core c is armed
TimerInitCpu(c) ==
    /\ Running(c, "boot", "timer_init_cpu")
    /\ stack' = SetTop(c, [Top(c) EXCEPT !.at = IF c = 0 THEN "drivers" ELSE "idle"])
    /\ touch' = {}
    /\ UNCHANGED <<daif, lockw, build>>
    /\ IrqFrame

\* kernel_main, storage: a driver calls blockdev_register
Drivers ==
    /\ Running(0, "boot", "drivers")
    /\ stack' = Push(SetTop(0, [Top(0) EXCEPT !.at = "task_create"]), 0,
                     Frame("blockdev_register", "irqsave", DevLock, TRUE))
    /\ touch' = {}
    /\ UNCHANGED <<daif, lockw, build>>
    /\ IrqFrame

\* kernel_main: task_create("init", init_process, 10, 0)
MainTaskCreate ==
    /\ Running(0, "boot", "task_create")
    /\ stack' = Push(SetTop(0, [Top(0) EXCEPT !.at = "set_current"]), 0,
                     Frame("task_create", "lock", SchedLock(target_cpu(Shl1(0))), FALSE))
    /\ touch' = {}
    /\ UNCHANGED <<daif, lockw, build>>
    /\ IrqFrame

\* kernel_main: current_task = init_task
MainSetCurrent ==
    /\ Running(0, "boot", "set_current")
    /\ stack' = SetTop(0, [Top(0) EXCEPT !.at = "schedule"])
    /\ touch' = {[by |-> 0, of |-> 0]}
    /\ UNCHANGED <<daif, lockw, build>>
    /\ IrqFrame

\* kernel_main: schedule(); secondary_cpu_entry: while (1) { wfe; schedule(); }
IdleSchedule(c) ==
    /\ \/ Running(c, "boot", "schedule")
       \/ c # 0 /\ Running(c, "boot", "idle")
    /\ stack' = Push(SetTop(c, [Top(c) EXCEPT !.at = "idle"]), c,
                     Frame("schedule", "lock", SchedLock(c), FALSE))
    /\ touch' = {}
    /\ UNCHANGED <<daif, lockw, build>>
    /\ IrqFrame

\* the calls of the task running on core c
TaskCalls(c) ==
    {Frame("task_create", "lock", SchedLock(target_cpu(a)), FALSE) : a \in {Shl1(x) : x \in CPUs}}
       \cup {Frame("fork", "irqsave", SchedLock(c), TRUE),
             Frame("schedule", "lock", SchedLock(c), FALSE),
             Frame("timer_schedule", "irqsave", TimerLock(c), TRUE),
             Frame("blockdev_register", "irqsave", DevLock, TRUE)}

\* task_create, fork, yield, timer_schedule or blockdev_register called by a task
TaskCall(c, f) ==
    /\ InTaskCode(c)
    /\ stack' = Push(stack, c, f)
    /\ touch' = {}
    /\ UNCHANGED <<daif, lockw, build>>
    /\ IrqFrame

\* task_block(state): task = current_task; task->state = state; schedule()
TaskBlockCall(c) ==
    /\ InTaskCode(c)
    /\ stack' = Push(stack, c, Frame("schedule", "lock", SchedLock(c), FALSE))
    /\ touch' = {[by |-> c, of |-> c]}
    /\ UNCHANGED <<daif, lockw, build>>
    /\ IrqFrame

\* a driver arms a timer inside its own spin_lock_irqsave section
NestedCall(c) ==
    /\ stack[c] # <<>>
    /\ Top(c).at = "cs"
    /\ Top(c).fn = "blockdev_register"
    /\ Cardinality({i \in DOMAIN stack[c] : stack[c][i].irq}) < MaxIrqNest
    /\ stack' = Push(stack, c, Frame("timer_schedule", "irqsave", TimerLock(c), TRUE))
    /\ touch' = {}
    /\ UNCHANGED <<daif, lockw, build>>
    /\ IrqFrame

\* spin_lock_irqsave up to the acquire loop.  spinlock.c: mrs flags, daif;
\* msr daifset, #3.  spinlock_simple.c: (void)flags
spin_lock_irqsave(b, f, d) ==
    IF b = "spinlock.c"
    THEN [f |-> [f EXCEPT !.flags = d, !.entry = d, !.at = "spin"], d |-> d \cup IrqFiq]
    ELSE [f |-> [f EXCEPT !.entry = d, !.at = "spin"], d |-> d]

\* spin_lock_irqsave that leaves the mask bits alone whatever the build
spin_lock_irqsave_nomask(b, f, d) ==
    [f |-> [f EXCEPT !.entry = d, !.at = "spin"], d |-> d]

SpinLockIrqsave(c) ==
    /\ stack[c] # <<>>
    /\ Top(c).at = "irqsave"
    /\ \E r \in {spin_lock_irqsave(build, Top(c), daif[c])} :
          /\ stack' = SetTop(c, r.f)
          /\ daif' = [daif EXCEPT ![c] = r.d]
    /\ touch' = {}
    /\ UNCHANGED <<lockw, build>>
    /\ IrqFrame

\* spin_lock, and the loop of spin_lock_irqsave: the exclusive store that
\* turns the lock word from 0 to 1
SpinLock(c) ==
    /\ stack[c] # <<>>
    /\ Top(c).at \in {"lock", "spin"}
    /\ lockw[Top(c).lk] = 0
    /\ lockw' = [lockw EXCEPT ![Top(c).lk] = 1]
    /\ stack' = SetTop(c, [Top(c) EXCEPT !.at = "cs"])
    /\ touch' = {}
    /\ UNCHANGED <<daif, build>>
    /\ IrqFrame

\* what the section of a function reads and writes of the scheduler state:
\* schedule: sched->current, the queue, current_task; task_create and fork:
\* enqueue_task on the queue of the lock's core
touches(c, f) ==
    IF f.fn \in {"schedule", "task_create", "fork"}
    THEN {[by |-> c, of |-> f.lk[2]]}
    ELSE {}

CriticalSection(c) ==
    /\ stack[c] # <<>>
    /\ Top(c).at = "cs"
    /\ stack' = SetTop(c, [Top(c) EXCEPT !.at = "unlock"])
    /\ touch' = touches(c, Top(c))
    /\ UNCHANGED <<daif, lockw, build>>
    /\ IrqFrame

\* spin_unlock: stlr wzr.  spin_unlock_irqrestore of spinlock.c: then
\* msr daif, flags; of spinlock_simple.c: (void)flags
spin_unlock_daif(b, f, d) ==
    IF f.irq /\ b = "spinlock.c" THEN f.flags ELSE d

LockRelease(c) ==
    /\ stack[c] # <<>>
    /\ Top(c).at = "unlock"
    /\ lockw' = [lockw EXCEPT ![Top(c).lk] = 0]
    /\ daif' = [daif EXCEPT ![c] = spin_unlock_daif(build, Top(c), daif[c])]
    /\ stack' = SetTop(c, [Top(c) EXCEPT !.at = "ret"])
    /\ touch' = {}
    /\ UNCHANGED build
    /\ IrqFrame

\* task_create, fork, timer_schedule, blockdev_register: return
Return(c) ==
    /\ stack[c] # <<>>
    /\ Top(c).at = "ret"
    /\ Top(c).fn \notin {"schedule", "timer_irq"}
    /\ stack' = Pop(c)
    /\ touch' = {}
    /\ UNCHANGED <<daif, lockw, build>>
    /\ IrqFrame

\* schedule() after spin_unlock: if (next != prev) context_switch(prev, next).
\* first: next runs for the first time and is entered by eret with spsr
\* 0x3C5, every exception masked; the calls of prev stay on its stack.
\* Otherwise schedule() returns to its caller.
ContextSwitch(c, first) ==
    /\ Running(c, "schedule", "ret")
    /\ IF first
       THEN /\ stack' = [stack EXCEPT ![c] = <<>>]
            /\ daif' = [daif EXCEPT ![c] = DaifAll]
       ELSE /\ stack' = Pop(c)
            /\ daif' = daif
    /\ touch' = {}
    /\ UNCHANGED <<lockw, build>>
    /\ IrqFrame

\* an interrupt is taken on core c: the timer tick (irq_handler calls
\* timer_irq_handler) or the reschedule SGI (ipi_handler calls schedule()).
\* The mask bits go to the saved program status and every exception is masked.
TakeIrq(c, kind) ==
    /\ "I" \notin daif[c]
    /\ stack[c] # <<>>
    /\ ~ (Top(c).fn = "boot" /\ Top(c).at = "timer_init_cpu" /\ kind = "timer")
    /\ daif' = [daif EXCEPT ![c] = DaifAll]
    /\ stack' = IF kind = "timer"
                THEN Push(stack, c, [Frame("timer_irq", "irqsave", TimerLock(c), TRUE)
                                        EXCEPT !.spsr = daif[c]])
                ELSE Push(Push(stack, c, [Frame("ipi", "eret", DevLock, FALSE)
                                             EXCEPT !.spsr = daif[c]]),
                          c, Frame("schedule", "lock", SchedLock(c), FALSE))
    /\ touch' = {}
    /\ UNCHANGED <<lockw, build>>
    /\ IrqFrame

\* timer_irq_handler after spin_unlock_irqrestore: schedule()
TimerIrqSchedule(c) ==
    /\ Running(c, "timer_irq", "ret")
    /\ stack' = Push(SetTop(c, [Top(c) EXCEPT !.at = "eret"]), c,
                     Frame("schedule", "lock", SchedLock(c), FALSE))
    /\ touch' = {}
    /\ UNCHANGED <<daif, lockw, build>>
    /\ IrqFrame

\* the handler returns: eret restores the mask bits of the interrupted code
Eret(c) ==
    /\ stack[c] # <<>>
    /\ Top(c).at = "eret"
    /\ daif' = [daif EXCEPT ![c] = Top(c).spsr]
    /\ stack' = Pop(c)
    /\ touch' = {}
    /\ UNCHANGED <<lockw, build>>
    /\ IrqFrame

NextIrq ==
    \/ \E c \in CPUs : SchedInitCpu(c)
    \/ \E c \in CPUs : IrqInit(c)
    \/ \E c \in CPUs : TimerInitCpu(c)
    \/ Drivers
    \/ MainTaskCreate
    \/ MainSetCurrent
    \/ \E c \in CPUs : IdleSchedule(c)
    \/ \E c \in CPUs : \E f \in TaskCalls(c) : TaskCall(c, f)
    \/ \E c \in CPUs : TaskBlockCall(c)
    \/ \E c \in CPUs : NestedCall(c)
    \/ \E c \in CPUs : SpinLockIrqsave(c)
    \/ \E c \in CPUs : SpinLock(c)
    \/ \E c \in CPUs : CriticalSection(c)
    \/ \E c \in CPUs : LockRelease(c)
    \/ \E c \in CPUs : Return(c)
    \/ \E c \in CPUs : \E first \in BOOLEAN : ContextSwitch(c, first)
    \/ \E c \in CPUs : \E kind \in {"timer", "ipi"} : TakeIrq(c, kind)
    \/ \E c \in CPUs : TimerIrqSchedule(c)
    \/ \E c \in CPUs : Eret(c)

InitIrq ==
    /\ TestInit
    /\ SchedInit
    /\ PickInit
    /\ HeapInit
    /\ \E b \in Builds : LockInitOf(b)
    /\ MmuInit
    /\ CreateInit
    /\ MoreInit

SpecIrq == InitIrq /\ [][NextIrq]_vars

\* ------------------------------------------------------------------------
\* mmu_map calls on one address space
\* ------------------------------------------------------------------------
MmuFrame == UNCHANGED <<schedvars, testvars, waiting, pickvars, heapvars, smpvars, irqvars, tcall, morevars>>

\* page-aligned and unaligned starts, the copy of address 0 above the index
\* bits, and the last page of the address range
VirtArgs == {0, 1, PAGE_SIZE, VaMod \div 2, VaMod - PAGE_SIZE}
SizeArgs == {1, PAGE_SIZE, 2 * PAGE_SIZE}
ProtArgs == {PROT_NONE, PROT_READ, PROT_READ + PROT_WRITE, PROT_READ + PROT_EXEC}
\* the allocation of the call that fails (0: none fails before the heap is
\* used up): a table of each level, the page of the walk, the page of mmu_map
FailAts == {0, 1, 4, 5}

\* ret = mmu_map(task, virt, size, prot, guard)
MmuMap(virt, len, prot, guard, low, failat) ==
    /\ mcalls < MaxMapCalls
    /\ mcall.ret # "wild"
    /\ \E r \in {mmu_map(mbuild, pgt, nalloc, virt, len, prot, guard, low, failat)} :
          /\ pgt' = r.pgt
          /\ nalloc' = r.n
          /\ mcall' = [virt |-> virt, size |-> len, prot |-> prot, guard |-> guard,
                       ret |-> r.ret, first |-> nalloc, failed |-> r.failed,
                       written |-> r.written, tlbi |-> r.tlbi, before |-> pgt]
    /\ mcalls' = mcalls + 1
    /\ UNCHANGED mbuild
    /\ MmuFrame

NextMmu ==
    \E virt \in VirtArgs, len \in SizeArgs, prot \in ProtArgs, guard \in {0, 1},
       low \in LowBits, failat \in FailAts :
          MmuMap(virt, len, prot, guard, low, failat)

InitMmu ==
    /\ TestInit
    /\ SchedInit
    /\ PickInit
    /\ HeapInit
    /\ LockInit
    /\ CreateInit
    /\ MoreInit
    /\ \E b \in MmuBuilds : MmuInitOf(b)

SpecMmu == InitMmu /\ [][NextMmu]_vars

\* ------------------------------------------------------------------------
\* one task_create call
\* ------------------------------------------------------------------------
\* mmu_init_task(task) of image b after the pieces in held were allocated:
\* the outcomes [held, tried, errno, fault].  kernel/mmu.c: a NULL from
\* pt_alloc_level is stored in task->pgtable_l0 and memcpy writes through
\* it, which faults or goes on; the results of mmu_map are dropped.
mmu_init_task(b, held, fails) ==
    IF b = "mmu.c"
    THEN {[held |-> held, tried |-> {}, errno |-> "none", fault |-> FALSE]}
    ELSE IF "pgt" \in fails
    THEN {[held |-> held, tried |-> {"pgt"}, errno |-> ENOMEM, fault |-> f] : f \in BOOLEAN}
    ELSE IF "map" \in fails
    THEN {[held |-> held \cup {"pgt"}, tried |-> {"pgt", "map"}, errno |-> ENOMEM, fault |-> FALSE]}
    ELSE {[held |-> held \cup {"pgt", "map"}, tried |-> {"pgt", "map"}, errno |-> "none", fault |-> FALSE]}

\* task_create(name, entry, priority, cpu_affinity) called on core c.
\* valid: name and entry are non-null; user: entry >= 0x40000000; fails: the
\* allocations that return NULL when made.  The set of outcomes.
task_create_call(b, c, valid, user, fails, aff) ==
    LET call == [NoCreate EXCEPT !.c = c, !.valid = valid, !.user = user,
                                 !.fails = fails, !.aff = aff]
        own == {"tcb", "kstack"} \cup (IF user THEN {"ustack"} ELSE {})
        stored == IF aff # 0 THEN aff ELSE Shl1(c)
    IN  IF ~ valid
        THEN {[call EXCEPT !.ret = "NULL", !.errno = EINVAL]}
        ELSE IF "tcb" \in fails
        THEN {[call EXCEPT !.ret = "NULL", !.errno = ENOMEM, !.tried = {"tcb"}]}
        ELSE IF "kstack" \in fails
        THEN {[call EXCEPT !.ret = "NULL", !.errno = ENOMEM,
                           !.tried = {"tcb", "kstack"}, !.held = {"tcb"} \ {"tcb"}]}
        ELSE IF user /\ "ustack" \in fails
        THEN {[call EXCEPT !.ret = "NULL", !.errno = ENOMEM, !.tried = own,
                           !.held = {"tcb", "kstack"} \ {"kstack", "tcb"}]}
        ELSE {IF m.fault
              THEN [call EXCEPT !.ret = "fault", !.errno = m.errno,
                                !.tried = own \cup m.tried, !.held = m.held,
                                !.stored = stored]
              ELSE [call EXCEPT !.ret = "task", !.errno = m.errno,
                                !.tried = own \cup m.tried, !.held = m.held,
                                !.enq = TRUE, !.cpu = target_cpu(stored),
                                !.stored = stored]
                 : m \in mmu_init_task(b, own, fails)}

\* task = task_create(name, entry, priority, cpu_affinity) on core c
TaskCreateCall(c, valid, user, fails, aff) ==
    /\ tcall.ret = "none"
    /\ tcall' \in task_create_call(mbuild, c, valid, user, fails, aff)
    /\ UNCHANGED <<schedvars, testvars, waiting, pickvars, heapvars, smpvars, irqvars, mmuvars, morevars>>

\* calls in which allocations fail, and calls with every affinity value
NextCreate ==
    \/ \E c \in CPUs, valid \in BOOLEAN, user \in BOOLEAN, fails \in SUBSET Pieces,
          aff \in Affinities : TaskCreateCall(c, valid, user, fails, aff)
    \/ \E c \in CPUs, aff \in AffValues : TaskCreateCall(c, TRUE, FALSE, {}, aff)

InitCreate ==
    /\ TestInit
    /\ SchedInit
    /\ PickInit
    /\ HeapInit
    /\ LockInit
    /\ CreateInit
    /\ MoreInit
    /\ \E b \in MmuBuilds : MmuInitOf(b)

SpecCreate == InitCreate /\ [][NextCreate]_vars

\* ------------------------------------------------------------------------
\* Pid assignment of task_create and fork on every core
\* ------------------------------------------------------------------------
PidFrame == UNCHANGED <<schedvars, testvars, waiting, pickvars, heapvars,
                        smpvars, irqvars, mmuvars, tcall, forkvars,
                        execvars, timervars>>

\* task_create or fork on core c reaches its __atomic_add_fetch
PidCall(c, fn) ==
    /\ ppc[c] = "idle"
    /\ Len(pidlog) + Cardinality({d \in CPUs : ppc[d] # "idle"}) < MaxPidCalls
    /\ ppc' = [ppc EXCEPT ![c] = "add"]
    /\ preg' = [preg EXCEPT ![c] = [NoPid EXCEPT !.fn = fn]]
    /\ UNCHANGED <<next_pid, pidlog, pbuild>>
    /\ PidFrame

\* the atomic instruction: next_pid += 1 and task->pid = the new value
AtomicAddFetch(c) ==
    /\ ppc[c] = "add"
    /\ pbuild = "inline"
    /\ next_pid' = next_pid + 1
    /\ pidlog' = Append(pidlog, [pid |-> next_pid + 1, cpu |-> c,
                                 fn |-> preg[c].fn])
    /\ ppc' = [ppc EXCEPT ![c] = "idle"]
    /\ preg' = [preg EXCEPT ![c] = NoPid]
    /\ UNCHANGED pbuild
    /\ PidFrame

\* __aarch64_ldadd4_acq_rel: int old = *ptr;
LdaddLoadOld(c) ==
    /\ ppc[c] = "add"
    /\ pbuild = "lib.c"
    /\ preg' = [preg EXCEPT ![c].old = next_pid]
    /\ ppc' = [ppc EXCEPT ![c] = "ld"]
    /\ UNCHANGED <<next_pid, pidlog, pbuild>>
    /\ PidFrame

\* *ptr += val; the load
LdaddLoad(c) ==
    /\ ppc[c] = "ld"
    /\ preg' = [preg EXCEPT ![c].tmp = next_pid]
    /\ ppc' = [ppc EXCEPT ![c] = "st"]
    /\ UNCHANGED <<next_pid, pidlog, pbuild>>
    /\ PidFrame

\* *ptr += val; the store, return old; and the caller's task->pid = old + 1
LdaddStore(c) ==
    /\ ppc[c] = "st"
    /\ next_pid' = preg[c].tmp + 1
    /\ pidlog' = Append(pidlog, [pid |-> preg[c].old + 1, cpu |-> c,
                                 fn |-> preg[c].fn])
    /\ ppc' = [ppc EXCEPT ![c] = "idle"]
    /\ preg' = [preg EXCEPT ![c] = NoPid]
    /\ UNCHANGED pbuild
    /\ PidFrame

NextPid ==
    \/ \E c \in CPUs, fn \in PidCallers : PidCall(c, fn)
    \/ \E c \in CPUs : AtomicAddFetch(c)
    \/ \E c \in CPUs : LdaddLoadOld(c)
    \/ \E c \in CPUs : LdaddLoad(c)
    \/ \E c \in CPUs : LdaddStore(c)

InitPid ==
    /\ SchedInit
    /\ TestInit
    /\ PickInit
    /\ HeapInit
    /\ LockInit
    /\ MmuInit
    /\ CreateInit
    /\ ForkInit
    /\ ExecInit
    /\ TimerInit
    /\ \E b \in PidBuilds : PidInitOf(b)

SpecPid == InitPid /\ [][NextPid]_vars

\* ------------------------------------------------------------------------
\* fork() on a core, and mmu_map calls on the address spaces around it
\* ------------------------------------------------------------------------
ForkFrame == UNCHANGED <<schedvars, testvars, waiting, pickvars, heapvars,
                         smpvars, irqvars, mmuvars, tcall, ppc, preg, pidlog,
                         pbuild, execvars, timervars>>

\* fork() called on core c; failat is the allocation that returns NULL.
\* The outcome: the tasks, queues, tables, block count, next_pid and the
\* value returned
fork(b, c, failat) ==
    LET parent == fcurrent
        child == Cardinality(DOMAIN ftask) + 1
        child_pid == next_pid + 1
        same == [task |-> ftask, sched |-> fsched, pgt |-> fpgt, n |-> fnalloc,
                 next_pid |-> next_pid, child |-> NULL, ret |-> -1,
                 failed |-> TRUE]
        copy == [ftask[parent] EXCEPT !.pid = child_pid, !.parent = parent,
                                      !.state = TASK_READY]
        s0 == [pgt |-> fpgt, n |-> fnalloc, k |-> 1, ret |-> 0,
               root |-> copy.pgtable_l0]
    IN  IF failat = 1
        THEN same
        ELSE Bind(mmu_duplicate_pagetable(b, s0, ftask[parent].pgtable_l0, failat),
               LAMBDA d :
                 IF d.ret # 0 \/ d.k + 1 = failat
                 THEN [same EXCEPT !.pgt = d.pgt, !.n = d.n, !.next_pid = child_pid]
                 ELSE Bind(ftask @@ (child :> [copy EXCEPT !.pgtable_l0 = d.root,
                                                         !.regs0 = 0,
                                                         !.stack = child]),
                        LAMBDA tk :
                          [task |-> enqueue_task_tk(tk, fsched, c, child),
                           sched |-> enqueue_task_cs(fsched, c, child),
                           pgt |-> d.pgt, n |-> d.n, next_pid |-> child_pid,
                           child |-> child, ret |-> child_pid,
                           failed |-> FALSE]))

ForkCall(c, failat) ==
    /\ ~ fcall.made
    /\ \E r \in {fork(mbuild, c, failat)} :
          /\ ftask' = r.task
          /\ fsched' = r.sched
          /\ fpgt' = r.pgt
          /\ fnalloc' = r.n
          /\ next_pid' = r.next_pid
          /\ fcall' = [cpu |-> c, caller |-> fsched[c].current,
                       parent |-> fcurrent, child |-> r.child, ret |-> r.ret,
                       failat |-> failat, failed |-> r.failed, made |-> TRUE,
                       before |-> [task |-> ftask, sched |-> fsched,
                                   pgt |-> fpgt, next_pid |-> next_pid]]
    /\ fmap' = [fmap EXCEPT !.task = NULL, !.before = <<>>]
    /\ UNCHANGED fcurrent
    /\ ForkFrame

\* mmu_map(t, vp << PAGE_SHIFT, PAGE_SIZE, prot, 0) on the tables of t
ForkMap(t, vp, prot) ==
    /\ t \in DOMAIN ftask
    /\ ftask[t].pgtable_l0 # NULL
    /\ fmap.calls < MaxForkMaps
    /\ fnalloc + L3 + 2 <= MaxForkPages
    /\ \E r \in {IF mbuild = "mmu.c"
                  THEN [pgt |-> fpgt, n |-> fnalloc]
                  ELSE fork_walk_map([pgt |-> fpgt, n |-> fnalloc],
                                     ftask[t].pgtable_l0, vp * PAGE_SIZE, 0, prot)} :
          /\ fpgt' = r.pgt
          /\ fnalloc' = r.n
    /\ fmap' = [task |-> t, vp |-> vp, prot |-> prot, before |-> <<fpgt>>,
                calls |-> fmap.calls + 1]
    /\ UNCHANGED <<ftask, fsched, fcurrent, fcall, next_pid>>
    /\ ForkFrame

NextFork ==
    \/ \E c \in CPUs, failat \in ForkFailAts : ForkCall(c, failat)
    \/ \E t \in 1 .. (2 * nr_cpus + 1), vp \in ForkVps, prot \in ForkProts :
          ForkMap(t, vp, prot)

InitFork ==
    /\ SchedInit
    /\ TestInit
    /\ PickInit
    /\ HeapInit
    /\ LockInit
    /\ CreateInit
    /\ \E b \in MmuBuilds : MmuInitOf(b)
    /\ PidInitAt("lib.c", nr_cpus + 1)
    /\ \E cur \in ForkParents, kern \in {ZeroEntry, KernelEntry} :
          ForkInitOf(cur, kern)
    /\ ExecInit
    /\ TimerInit

SpecFork == InitFork /\ [][NextFork]_vars

\* ------------------------------------------------------------------------
\* execve() by the current task, after mmu_map calls on its address space
\* ------------------------------------------------------------------------
ExecMap(t, vp, prot) ==
    /\ ~ ecall.made
    /\ ForkMap(t, vp, prot)

Execve(segs, fault, at) ==
    /\ ~ ecall.made
    /\ \E r \in {execve(mbuild, etask, fpgt, fnalloc,
                         ftask[fcurrent].pgtable_l0, segs, fault, at)} :
          /\ etask' = r.ctx
          /\ fpgt' = r.pgt
          /\ fnalloc' = r.n
          /\ ecall' = [made |-> TRUE, ret |-> r.ret, errno |-> r.errno,
                       fault |-> fault, at |-> at, segs |-> segs,
                       before |-> [ctx |-> etask, pgt |-> fpgt]]
    /\ UNCHANGED <<ftask, fsched, fcurrent, fcall, fmap, pidvars, timervars>>
    /\ UNCHANGED <<schedvars, testvars, waiting, pickvars, heapvars, smpvars,
                   irqvars, mmuvars, tcall>>

NextExec ==
    \/ \E t \in ForkParents, vp \in ForkVps, prot \in ForkProts : ExecMap(t, vp, prot)
    \/ \E segs \in SegLists, fault \in ExecFaults, at \in 1 .. MaxSegments :
          Execve(segs, fault, at)

InitExec ==
    /\ SchedInit
    /\ TestInit
    /\ PickInit
    /\ HeapInit
    /\ LockInit
    /\ CreateInit
    /\ PidInit
    /\ ForkInit
    /\ ExecInit
    /\ TimerInit
    /\ \E b \in MmuBuilds : MmuInitOf(b)

SpecExec == InitExec /\ [][NextExec]_vars

\* ------------------------------------------------------------------------
\* timer_schedule, timer_cancel and timer_irq_handler on one core.  Task
\* code calls the first two while the handler does not run; a callback
\* calls them while the handler has released the lock for it.
\* ------------------------------------------------------------------------
TimerFrame == UNCHANGED <<schedvars, testvars, waiting, pickvars, heapvars,
                          smpvars, irqvars, mmuvars, tcall, pidvars, forkvars,
                          execvars>>
TimerList == [tm |-> tm, head |-> thead, hung |-> FALSE]
Linked == SeqToSet(timer_walk(tm, thead, NumTimers + 1))
\* the caller: task code, or the callback the handler is in
TimerCaller ==
    \/ tq.at = "idle"
    \/ tq.at = "callback" /\ tq.calls < MaxCallbackCalls
AfterCall(l) ==
    /\ tm' = l.tm
    /\ thead' = l.head
    /\ tq' = IF l.hung THEN [tq EXCEPT !.at = "hung"]
             ELSE IF tq.at = "callback" THEN [tq EXCEPT !.calls = @ + 1]
             ELSE tq

TimerSchedule(t, ms) ==
    /\ TimerCaller
    /\ \E l \in {timer_schedule(TimerList, t, ms, tnow)} : AfterCall(l)
    /\ tcancelled' = tcancelled \ {t}
    /\ tnested' = (tnested \/ t \in Linked \/ tq.at = "callback")
    /\ UNCHANGED <<tnow, tlate>>
    /\ TimerFrame

TimerCancel(t) ==
    /\ TimerCaller
    /\ \E l \in {timer_cancel(TimerList, t)} :
          /\ AfterCall(l)
          /\ tcancelled' = IF l.hung THEN tcancelled ELSE tcancelled \cup {t}
    /\ tnested' = (tnested \/ tq.at = "callback")
    /\ UNCHANGED <<tnow, tlate>>
    /\ TimerFrame

\* the loop of timer_irq_handler from its test on, with local t: up to
\* the call of the next callback, or to timer_lists[cpu] = t and the return
irq_loop(t) ==
    IF t # NULL /\ tm[t].expires_ns <= tnow
    THEN /\ tm' = [tm EXCEPT ![t].active = 0]
         /\ tq' = [at |-> "callback", t |-> t, next |-> tm[t].next, calls |-> 0]
         /\ tlate' = (tlate \/ t \in tcancelled)
         /\ UNCHANGED thead
    ELSE /\ thead' = t
         /\ tq' = TimerIdle
         /\ UNCHANGED <<tm, tlate>>

\* the timer interrupt: now = get_time_ns(); t = timer_lists[cpu]
TimerIrqHandler ==
    /\ tq.at = "idle"
    /\ irq_loop(thead)
    /\ UNCHANGED <<tnow, tcancelled, tnested>>
    /\ TimerFrame

\* t->callback(t) returns: t = next
CallbackReturn ==
    /\ tq.at = "callback"
    /\ irq_loop(tq.next)
    /\ UNCHANGED <<tnow, tcancelled, tnested>>
    /\ TimerFrame

\* the counter advances
TimerTick ==
    /\ tq.at = "idle"
    /\ tnow < MaxTime
    /\ tnow' = tnow + 1
    /\ UNCHANGED <<tm, thead, tq, tcancelled, tlate, tnested>>
    /\ TimerFrame

NextTimer ==
    \/ \E t \in Timers, ms \in Delays : TimerSchedule(t, ms)
    \/ \E t \in Timers : TimerCancel(t)
    \/ TimerIrqHandler
    \/ CallbackReturn
    \/ TimerTick

SpecTimer == Init /\ [][NextTimer]_vars

\* ------------------------------------------------------------------------
\* Properties
\* ------------------------------------------------------------------------
Cores(t) == {c \in CPUs : t \in SeqToSet(Queue(c))}
Occurrences(q, t) == Cardinality({i \in 1 .. Len(q) : q[i] = t})
\* a task control block task_create or fork has filled but not yet enqueued
UnderConstruction(t) ==
    \E c \in CPUs : pc[c] \in {"tc_enq", "fk_enq"} /\ loc[c].task = t

\* C1: whenever schedule() marks a task RUNNING and publishes it as the
\* core's current task, that task is not BLOCKED or ZOMBIE at that moment.
C1_NeverSelectsBlockedOrZombie ==
    [][\A c \in CPUs :
         (pc[c] = "s_commit" /\ pc'[c] = "run" /\ loc[c].next # NULL)
         => task[loc[c].next].state \notin {TASK_BLOCKED, TASK_ZOMBIE}]_vars

\* C2: every call of schedule() selects a task (never NULL), selects the
\* core's idle task when no task of the core's ready queue is READY at
\* selection time, and leaves the core's current task non-null.
C2_IdleFallback ==
    /\ [][\A c \in CPUs :
            (pc[c] # "s_commit" /\ pc'[c] = "s_commit")
            => /\ loc'[c].next # NULL
               /\ (\A t \in SeqToSet(Queue(c)') : task'[t].state # TASK_READY)
                  => loc'[c].next = cpu_sched'[c].idle_task]_vars
    /\ [](\A c \in CPUs : pc[c] = "run" => cpu_sched[c].current # NULL)

\* C2 witness: schedule() has selected the idle task of a core whose ready
\* queue holds another task and no READY task.
C2_Witness ==
    \E c \in CPUs :
        /\ pc[c] = "s_commit"
        /\ loc[c].next = cpu_sched[c].idle_task
        /\ Len(Queue(c)) >= 2
        /\ \A t \in SeqToSet(Queue(c)) : task[t].state # TASK_READY

\* C3: with every increment bracketed by spin_lock/spin_unlock, once
\* test_shared_globals has joined the three tasks (its three wait() calls
\* have returned), the counter equals tasks * increments.
C3_CounterAfterJoin ==
    (tpc = "check" /\ \A w \in IncTasks : wreg[w].lock)
    => shared_counter = NumIncTasks * Increments

\* The spinlock itself excludes: at most one task is between spin_lock and
\* spin_unlock, and when all three tasks have finished no update is lost.
SpinMutualExclusion ==
    Cardinality({w \in IncTasks : wreg[w].lock
                                  /\ wpc[w] \in {"load", "store", "unlock"}}) <= 1
SpinNoLostUpdate ==
    (\A w \in IncTasks : wpc[w] = "exit" /\ wreg[w].lock)
    => shared_counter = NumIncTasks * Increments

\* the part of C4 that every task_create with valid arguments returns a
\* READY task linked exactly once in its target core's queue and nowhere else
C4_Linked ==
    [][\A c \in CPUs :
         (pc[c] = "tc_enq" /\ pc'[c] = "run")
         => LET t == loc[c].task
                bit == Ctz(task[t].cpu_affinity)
                cpu == IF bit >= MAX_CPUS THEN 0 ELSE bit
            IN  /\ task'[t].state = TASK_READY
                /\ Occurrences(QueueOf(task', cpu_sched', cpu), t) = 1
                /\ \A d \in CPUs \ {cpu} : Occurrences(QueueOf(task', cpu_sched', d), t) = 0]_vars

\* the part of C4 that every READY or RUNNING task is a member of exactly
\* one core's queue
C4_Membership ==
    \A t \in Allocated :
        (task[t].state \in {TASK_READY, TASK_RUNNING} /\ ~UnderConstruction(t))
        => /\ Cardinality(Cores(t)) = 1
           /\ \A c \in Cores(t) : Occurrences(Queue(c), t) = 1

QueueValid(c) ==
    LET q == Queue(c)
    IN  /\ (cpu_sched[c].runqueue_head = NULL) <=> (cpu_sched[c].runqueue_tail = NULL)
        /\ Len(q) <= Cardinality(Allocated)
        /\ \A i, j \in 1 .. Len(q) : i # j => q[i] # q[j]
        /\ Len(q) > 0 =>
              /\ q[Len(q)] = cpu_sched[c].runqueue_tail
              /\ task[q[Len(q)]].next = NULL
              /\ task[q[1]].prev = NULL
        /\ \A i \in 1 .. Len(q) - 1 : task[q[i + 1]].prev = q[i]

C6_NoStarvation ==
    \A t \in (nr_cpus + 1) .. (nr_cpus + MaxYielders) :
        (t \in Allocated /\ ~UnderConstruction(t)) ~> (cpu_sched[0].current = t)

\* C7: every change of a task's state is READY->RUNNING, RUNNING->READY,
\* RUNNING->BLOCKED, RUNNING->ZOMBIE, or BLOCKED->READY inside task_wakeup;
\* a ZOMBIE task's state never changes.
C7_Transitions ==
    [][\A t \in Allocated :
         task'[t].state # task[t].state
         => \/ <<task[t].state, task'[t].state>> \in
                 {<<TASK_READY, TASK_RUNNING>>, <<TASK_RUNNING, TASK_READY>>,
                  <<TASK_RUNNING, TASK_BLOCKED>>, <<TASK_RUNNING, TASK_ZOMBIE>>}
            \/ /\ task[t].state = TASK_BLOCKED
               /\ task'[t].state = TASK_READY
               /\ \E c \in CPUs : pc[c] = "wk_set" /\ pc'[c] = "run"
                                  /\ loc[c].task = t]_vars

\* C8: a fault of a running task with no handler registered makes exactly
\* that task ZOMBIE and its core reschedules: the kernel is not halted and
\* no other task's state is changed by the fault.
C8_FaultIsolation ==
    [][\A c \in CPUs :
         LET me == cpu_sched[c].current
         IN  (HandleException(c) /\ task[me].handler = SIG_DFL)
             => /\ task'[me].state = TASK_ZOMBIE
                /\ pc'[c] = "s_commit"
                /\ \A t \in Allocated \ {me} : task'[t].state = task[t].state]_vars

\* C9: task_wakeup(T) with T null or not BLOCKED returns with no task's
\* fields, no ready queue, no core's current task and no IPI changed.
C9_WakeupNoop ==
    [][\A c \in CPUs :
         (/\ pc[c] = "wk_check"
          /\ pc'[c] # "wk_check"
          /\ \/ loc[c].task = NULL
             \/ task[loc[c].task].state # TASK_BLOCKED)
         => /\ pc'[c] = "run"
            /\ task' = task
            /\ cpu_sched' = cpu_sched
            /\ current_task' = current_task
            /\ ipi' = ipi]_vars

\* C9 witness: task_wakeup is called on a ZOMBIE task and on a RUNNING one.
C9_Witness ==
    /\ pc[0] = "wk_check" /\ loc[0].task # NULL
    /\ task[loc[0].task].state = TASK_ZOMBIE
    /\ pc[1] = "wk_check" /\ loc[1].task # NULL
    /\ task[loc[1].task].state = TASK_RUNNING

\* C10: task_block(state) sets the state of the task running on the core
\* that executes the call, and of no other task.
C10_BlocksCaller ==
    [][\A c \in CPUs :
         (pc[c] = "tb_set" /\ pc'[c] # "tb_set")
         => /\ task'[cpu_sched[c].current].state = loc[c].arg
            /\ \A t \in Allocated \ {cpu_sched[c].current} :
                  task'[t].state = task[t].state]_vars

\* C11: a task that called task_block(TASK_BLOCKED) is not dispatched (made
\* a core's current task by schedule()) as long as no task_wakeup call on it
\* has happened.
C11_BlockedUntilWakeup ==
    [][\A c \in CPUs :
         (pc[c] = "s_commit" /\ pc'[c] = "run")
         => loc[c].next \notin waiting]_vars

\* C12: task_wakeup(T) on a BLOCKED task T marks T READY and sends the
\* reschedule IPI to the core whose ready queue holds T exactly when that
\* core is not the calling core.
C12_WakeupIpiToOwner ==
    [][\A c \in CPUs :
         (pc[c] = "wk_set" /\ pc'[c] = "run")
         => LET t == loc[c].task
            IN  /\ task'[t].state = TASK_READY
                /\ \A owner \in Cores(t) :
                      ipi' = IF owner # c THEN ipi \cup {owner} ELSE ipi]_vars

ReadyIn(q) == {i \in 1 .. Len(q) : q[i].state = TASK_READY}

\* C13: when the queue holds a READY task, the task pick_next_task returns
\* is READY, no READY task of the queue has a higher priority, and no READY
\* task of the same priority is nearer the queue head.
C13_PickMaxPriorityFifo ==
    (picked # NULL /\ ReadyIn(rq) # {})
    => /\ picked \in ReadyIn(rq)
       /\ \A j \in ReadyIn(rq) :
             /\ rq[j].priority <= rq[picked].priority
             /\ rq[j].priority = rq[picked].priority => picked <= j

\* The same with every READY task's priority at least 0.
PickNonNegative ==
    (/\ picked # NULL /\ ReadyIn(rq) # {}
     /\ \A j \in ReadyIn(rq) : rq[j].priority >= 0)
    => /\ picked \in ReadyIn(rq)
       /\ \A j \in ReadyIn(rq) :
             /\ rq[j].priority <= rq[picked].priority
             /\ rq[j].priority = rq[picked].priority => picked <= j

\* the heap after the step
HeapNext == [mem |-> mem', head |-> free_list_head', alloc |-> heap_allocated', wild |-> FALSE]
\* the step is kfree(p) for the pointer of the innermost kmalloc not yet undone
UndoesTop(p) == lifo # <<>> /\ lifo[Len(lifo)].ptr = p /\ Kfree(p)
RoundTrip(p) ==
    /\ hcall'.err = "ok"
    /\ free_bytes(HeapNext) = lifo[Len(lifo)].bytes
    /\ FreeExtents(HeapNext) = lifo[Len(lifo)].extents

\* C14: from every reachable heap state a successful kmalloc(n) followed
\* by kfree of the returned pointer, immediately or after further such
\* pairs nested in LIFO order, restores the free-byte count and the
\* number and extents of the free blocks to what they were before the
\* kmalloc.
C14_RoundTrip ==
    [][\A p \in PtrArgs \ {NULL} : UndoesTop(p) => RoundTrip(p)]_vars

\* the same for the arena that was not damaged before
RoundTripIntact ==
    [][\A p \in PtrArgs \ {NULL} : (damage = 0 /\ UndoesTop(p)) => RoundTrip(p)]_vars

\* no free block has room for n bytes and a header
NoRoom(n) == \A e \in FreeExtents(Heap) : e[2] < HdrSize + ALIGN_UP(n)
\* the untouched arena is one free block: what malloc_init makes of it
Settled(h) == IF Untouched(h) THEN malloc_init(h) ELSE h
OutOfMemory == hcall'.ret = NULL /\ HeapNext = Settled(Heap)

\* C15: in every reachable heap state in which no free block is large
\* enough for the rounded request plus header, whatever the number of
\* free blocks, kmalloc(n) returns NULL and leaves every block header,
\* the free list and the allocated-byte counter unchanged.  (Stated for
\* the requests whose rounding does not wrap around.)
C15_OutOfMemory ==
    [][\A n \in ReqSizes : (ALIGN_UP(n) >= n /\ NoRoom(n) /\ Kmalloc(n)) => OutOfMemory]_vars

\* the same for the states with at least one free block
OutOfMemorySomeFree ==
    [][\A n \in ReqSizes :
          (ALIGN_UP(n) >= n /\ NoRoom(n) /\ FreeExtents(Heap) # {} /\ Kmalloc(n))
              => OutOfMemory]_vars

\* the step is kfree(p) and leaves the heap and the callers' pointers as
\* they were, reporting err
Rejects(p, err) ==
    Kfree(p) => /\ hcall'.err = err
                /\ HeapNext = Heap
                /\ live' = live

\* C16: kfree(ptr) on a block whose header magic tag is invalid fails with
\* CorruptionDetected, on a block whose header is already marked free it
\* fails with DoubleFree; in both cases every header, the free list and
\* the allocated-byte counter are left exactly as they were.
C16_KfreeRejects ==
    [][\A p \in PtrArgs \ {NULL} :
          /\ magic(Heap, p - HdrSize) # HDR_MAGIC => Rejects(p, "CorruptionDetected")
          /\ (magic(Heap, p - HdrSize) = HDR_MAGIC /\ free(Heap, p - HdrSize) # 0)
                 => Rejects(p, "DoubleFree")]_vars

\* a pointer was freed a second time while other blocks are in use
C16_Witness == hcall.op = "kfree" /\ hcall.err = "DoubleFree" /\ live # {}
\* kfree met a header without the magic tag while blocks are in use
KfreeCorruptReached == hcall.op = "kfree" /\ hcall.err = "CorruptionDetected" /\ live # {}

\* n rounded up to the alignment, as a number
RoundedUp(n) == ((n + (ALIGN - 1)) \div ALIGN) * ALIGN
\* the first block in free-list order with at least need bytes, or NULL
FirstOf(h, l, need) ==
    LET fits == {i \in 1 .. Len(l) : size(h, l[i]) >= need}
    IN  IF fits = {} THEN NULL
        ELSE l[CHOOSE i \in fits : \A j \in fits : i <= j]
\* what the claim says of a kmalloc(n) step that returns a block
FirstFitSplit(n) ==
    LET h == Settled(Heap)
        need == HdrSize + RoundedUp(n)
        b == hcall'.ret - HdrSize
        rest == b + need
    IN  /\ b = FirstOf(h, FreeBlocks(Heap), need)
        /\ free(HeapNext, b) = 0
        /\ \A e \in FreeExtents(HeapNext) : e[1] # b
        /\ IF size(h, b) >= need + MIN_PAYLOAD
           THEN /\ size(HeapNext, b) = need
                /\ <<rest, size(h, b) - need>> \in FreeExtents(HeapNext)
                /\ free(HeapNext, rest) # 0
           ELSE /\ size(HeapNext, b) = size(h, b)
                /\ FreeExtents(HeapNext) = FreeExtents(Heap) \ {<<b, size(h, b)>>}
        /\ hcall'.ret % ALIGN = 0
        /\ size(HeapNext, b) - HdrSize >= n

\* C18: kmalloc(n) takes the first block in free-list order whose size is
\* at least the header plus n rounded up to the alignment; a block that
\* exceeds the need by a header plus the minimum payload is split, the
\* front part returned and the remainder linked in the free list as a
\* free block, any other block is handed over whole; the payload is
\* 16-byte aligned and at least n bytes long.  (Stated for the calls
\* that do not find the arena damaged or re-initialise it.)
C18_FirstFitSplit ==
    [][\A n \in ReqSizes :
          (Kmalloc(n) /\ damage' = 0 /\ hcall'.ret # NULL) => FirstFitSplit(n)]_vars

\* the same for the requests whose rounding does not wrap around
FirstFitNoWrap ==
    [][\A n \in ReqSizes :
          (Kmalloc(n) /\ damage' = 0 /\ hcall'.ret # NULL /\ ALIGN_UP(n) >= n)
              => FirstFitSplit(n)]_vars

\* the address of word w of the arena
WordAddr(w) == HeapBase + 8 * w
\* what the claim says of a kcalloc(nmemb, sz) step
ZeroFilled(nmemb, sz) ==
    LET total == nmemb * sz
        ptr == hcall'.ret
        got == kmalloc(Heap, total % WordMod).h
    IN  IF total >= WordMod THEN ptr = NULL
        ELSE ptr # NULL =>
               /\ ~hcall'.wild
               /\ ptr >= HeapBase /\ ptr + total <= heap_end
               /\ ptr + total <= block_end(HeapNext, ptr)
               /\ \A w \in DOMAIN mem :
                     /\ (WordAddr(w) >= ptr /\ WordAddr(w) < ptr + total) => mem'[w] = 0
                     /\ (WordAddr(w) < ptr \/ WordAddr(w) >= block_end(got, ptr))
                            => mem'[w] = got.mem[w]

\* C19: for all n and size, with size_t arithmetic modulo 2^WordBits,
\* kcalloc(n, size) returns NULL whenever n * size overflows, and
\* otherwise NULL or a pointer to a zero-filled payload of at least
\* n * size bytes inside the arena; it never zeroes bytes outside the
\* block it obtained.  (Stated for the calls that find the arena
\* undamaged.)
C19_KcallocZeroFilled ==
    [][\A a \in CallocArgs : (damage = 0 /\ Kcalloc(a[1], a[2])) => ZeroFilled(a[1], a[2])]_vars

\* the same for the products whose rounding does not wrap around
KcallocNoWrap ==
    [][\A a \in CallocArgs :
          (damage = 0 /\ Kcalloc(a[1], a[2]) /\ RoundedUp(a[1] * a[2]) < WordMod)
              => ZeroFilled(a[1], a[2])]_vars

\* C20: the heap brings its own spinlock: kmalloc, kcalloc and kfree
\* called concurrently from different cores execute their free-list and
\* header updates in mutual exclusion, so that a kmalloc never returns a
\* block another caller holds and a kfree never updates a block that is
\* no longer in use.  (Stated for the calls that find the arena
\* undamaged.)
C20_HeapMutualExclusion ==
    [][\A c \in CPUs :
          /\ (damage = 0 /\ KmallocTake(c)) => hcall'.ret \notin live
          /\ (damage = 0 /\ KfreeUpdate(c)) => free(Heap, hloc[c].ptr - HdrSize) = 0]_vars

\* one core alone never gets a block that is in use, as long as kmalloc
\* has not re-initialised a carved arena
NeverInUse ==
    [][\A n \in ReqSizes : (Kmalloc(n) /\ damage' = 0 /\ hcall'.ret # NULL)
                               => hcall'.ret \notin live]_vars

\* the blocks of the arena in address order: from heap[0], each block
\* ends where the next begins
RECURSIVE phys_blocks(_, _, _)
phys_blocks(h, b, fuel) ==
    IF b < HeapBase \/ b >= heap_end \/ fuel = 0 \/ magic(h, b) # HDR_MAGIC \/ size(h, b) = 0
    THEN <<>>
    ELSE <<b>> \o phys_blocks(h, next_phys(h, b), fuel - 1)
PhysBlocks == phys_blocks(Heap, HeapBase, HeapUnits)

\* C17: after any sequence of kmalloc, kcalloc and kfree calls no two
\* physically adjacent blocks are both marked free.
C17_AdjacentFreeCoalesced ==
    \A i \in 1 .. (Len(PhysBlocks) - 1) :
        ~(free(Heap, PhysBlocks[i]) # 0 /\ free(Heap, PhysBlocks[i + 1]) # 0)

\* the same while the arena is undamaged
CoalescedIntact == damage = 0 => C17_AdjacentFreeCoalesced

\* ------------------------------------------------------------------------
\* locks and interrupts
\* ------------------------------------------------------------------------
\* C21: every read and write of a core's current-task pointer and of its
\* ready queue is made by a core that holds that core's scheduler lock
C21_LockedAccess == \A a \in touch : Holds(a.by, SchedLock(a.of))

\* the accesses schedule, task_create and fork make inside their sections
\* are made under the lock
SectionAccessLocked ==
    \A a \in touch :
       (stack[a.by] # <<>> /\ Top(a.by).at = "unlock") => Holds(a.by, SchedLock(a.of))

\* kernel_main has stored init_task in current_task with no lock held while
\* the timer tick of core 0 is armed and unmasked
UnlockedPublish ==
    /\ Running(0, "boot", "schedule")
    /\ touch = {[by |-> 0, of |-> 0]}
    /\ "I" \notin daif[0]

\* core c spins on a lock that a call it interrupted holds
SelfDeadlock(c) ==
    /\ stack[c] # <<>>
    /\ Top(c).at \in {"lock", "spin"}
    /\ \E i \in 1 .. (Len(stack[c]) - 1) : HoldsAt(c, i, Top(c).lk)

\* C22: no core spins, inside an interrupt handler, on a scheduler lock held
\* by the code the handler interrupted
C22_NoSelfDeadlock == \A c \in CPUs : ~ SelfDeadlock(c)

\* a handler never meets a lock that the interrupted code took with
\* spin_lock_irqsave of spinlock.c
NoSelfDeadlockIrqsave ==
    build = "spinlock.c" =>
       \A c \in CPUs :
          SelfDeadlock(c) =>
             \A i \in 1 .. (Len(stack[c]) - 1) :
                HoldsAt(c, i, Top(c).lk) => ~ stack[c][i].irq

\* between spin_lock_irqsave and spin_unlock_irqrestore of call i of core c
\* IRQ and FIQ are masked, and right after the restore the mask bits are
\* those at the spin_lock_irqsave
IrqsaveSection(c, i) ==
    LET f == stack[c][i]
    IN  f.irq =>
           /\ f.at \in {"spin", "cs", "unlock"} => IrqFiq \subseteq daif[c]
           /\ (f.at = "ret" /\ i = Len(stack[c])) => daif[c] = f.entry

\* C23: interrupts are masked on the calling core between spin_lock_irqsave
\* and the matching spin_unlock_irqrestore, and the restore brings back the
\* mask bits of the matching save, also when sections on different locks nest
C23_IrqsaveRestore == \A c \in CPUs : \A i \in DOMAIN stack[c] : IrqsaveSection(c, i)

\* the same for an image linked with spinlock.c
IrqsaveRestoreSpinlockC == build = "spinlock.c" => C23_IrqsaveRestore

\* two nested sections of spinlock.c entered with IRQ unmasked
NestedIrqsave ==
    /\ build = "spinlock.c"
    /\ \E c \in CPUs :
          /\ Len(stack[c]) >= 3
          /\ Top(c).irq /\ Top(c).at = "ret" /\ "I" \in Top(c).entry
          /\ stack[c][Len(stack[c]) - 1].irq
          /\ "I" \notin stack[c][Len(stack[c]) - 1].entry

\* ------------------------------------------------------------------------
\* page tables
\* ------------------------------------------------------------------------
\* the pages that intersect [virt, virt + size) of the last call
RangePages == {PageOf((mcall.virt + d) % VaMod) : d \in 0 .. (mcall.size - 1)}
FullMmu == mbuild = "kernel/mmu.c"
Returned0 == mcall.ret = "0"
\* the range starts and ends on a page boundary inside the address range
AlignedRange ==
    /\ mcall.virt % PAGE_SIZE = 0
    /\ mcall.size % PAGE_SIZE = 0
    /\ mcall.virt + mcall.size < VaMod
\* every pointer stored in the tables is page aligned
AlignedTables == \A t \in DOMAIN pgt : \A i \in DOMAIN pgt[t] : pgt[t][i].low = 0

\* C24: after mmu_map(task, virt, size, prot, 1) has returned 0 the leaf
\* entry of every page of the range is present with the valid bit clear
C24_GuardInvalid ==
    (Returned0 /\ mcall.guard = 1) =>
       \A vp \in RangePages :
          /\ Leaf(pgt, vp) # ZeroEntry
          /\ ~ Leaf(pgt, vp).valid

\* after a guard call of kernel/mmu.c has returned 0 no page of the range
\* has a valid leaf entry
GuardFaults ==
    (FullMmu /\ Returned0 /\ mcall.guard = 1) =>
       \A vp \in RangePages : ~ Leaf(pgt, vp).valid

\* the same for a page-aligned range and page-aligned tables
GuardInvalidAligned ==
    (FullMmu /\ AlignedRange /\ AlignedTables) => C24_GuardInvalid

\* a guard call on an aligned range that returned 0
GuardMapped ==
    /\ FullMmu /\ AlignedRange /\ AlignedTables
    /\ Returned0 /\ mcall.guard = 1
    /\ mcall.size = 2 * PAGE_SIZE

\* C25: a call of mmu_map leaves every leaf entry that was present before it
\* as it was, and no physical page is bound to two pages
C25_NoOverlap ==
    (FullMmu /\ mcall.ret # "none") =>
       /\ \A vp \in LeafSlots :
             Leaf(mcall.before, vp) # ZeroEntry => Leaf(pgt, vp) = Leaf(mcall.before, vp)
       /\ \A vp \in LeafSlots : \A vq \in LeafSlots :
             (vp # vq /\ Leaf(pgt, vp) # ZeroEntry /\ Leaf(pgt, vq) # ZeroEntry)
                => Leaf(pgt, vp).out # Leaf(pgt, vq).out

\* no physical page is bound to two pages
NoSharedPage ==
    \A vp \in LeafSlots : \A vq \in LeafSlots :
       (vp # vq /\ Leaf(pgt, vp) # ZeroEntry /\ Leaf(pgt, vq) # ZeroEntry)
          => Leaf(pgt, vp).out # Leaf(pgt, vq).out

\* C26: after mmu_map(..., guard = 0) has returned 0 every page of the range
\* is bound to a page allocated during the call, writable exactly when
\* PROT_WRITE was asked for and executable by the user exactly when
\* PROT_EXEC was
C26_Protection ==
    (FullMmu /\ Returned0 /\ mcall.guard = 0) =>
       \A vp \in RangePages :
          /\ Leaf(pgt, vp).valid
          /\ Leaf(pgt, vp).out > mcall.first
          /\ (~ Leaf(pgt, vp).ro) <=> HasBit(mcall.prot, PROT_WRITE)
          /\ (~ Leaf(pgt, vp).uxn) <=> HasBit(mcall.prot, PROT_EXEC)

\* on an aligned range with aligned tables every page is bound to a page of
\* the call and is executable by the user exactly when PROT_EXEC was asked
BindsFreshExec ==
    (FullMmu /\ Returned0 /\ mcall.guard = 0 /\ AlignedRange /\ AlignedTables) =>
       \A vp \in RangePages :
          /\ Leaf(pgt, vp).valid
          /\ Leaf(pgt, vp).out > mcall.first
          /\ (~ Leaf(pgt, vp).uxn) <=> HasBit(mcall.prot, PROT_EXEC)

\* C27: mmu_map returns an error whenever an allocation of the call failed,
\* and returns 0 only when every page that intersects the range has a leaf
\* entry, whatever virt and size are
C27_ErrorOrComplete ==
    FullMmu =>
       /\ mcall.failed => mcall.ret = "-1"
       /\ Returned0 => \A vp \in RangePages : Leaf(pgt, vp) # ZeroEntry

\* a failed allocation is reported
FailureReported == (FullMmu /\ mcall.failed) => mcall.ret = "-1"

\* a call in which an allocation failed
AllocationFailed == FullMmu /\ mcall.failed /\ mcall.written # {}

\* C28: when mmu_map returns, every page whose leaf entry the call wrote has
\* been invalidated in the TLB
C28_TlbInvalidate ==
    (FullMmu /\ mcall.ret \in {"0", "-1"}) => mcall.written \subseteq mcall.tlbi

\* a call that returns 0 invalidates one address, the one the loop ended on
InvalidatesEnd ==
    (FullMmu /\ Returned0 /\ AlignedRange) =>
       mcall.tlbi = {PageOf(mcall.virt + mcall.size)}

\* ------------------------------------------------------------------------
\* task_create: failures and affinity
\* ------------------------------------------------------------------------
\* the call has ended and name or entry was null or an allocation it made
\* returned NULL
CreateFailed ==
    /\ tcall.ret \in {"NULL", "task"}
    /\ ~ tcall.valid \/ tcall.tried \cap tcall.fails # {}

\* C29: when task_create fails it returns NULL with EINVAL (null name or
\* entry) or ENOMEM (failed allocation), no task is enqueued, and every
\* piece allocated during the call is free again
C29_CreateUnwound ==
    CreateFailed =>
       /\ tcall.ret = "NULL"
       /\ tcall.errno = IF tcall.valid THEN ENOMEM ELSE EINVAL
       /\ ~ tcall.enq
       /\ tcall.held = {}

\* the same for a failure of the three allocations task_create makes itself
OwnFailureUnwound ==
    (tcall.ret # "none" /\ (~ tcall.valid \/ tcall.fails \cap tcall.tried \cap {"tcb", "kstack", "ustack"} # {}))
       => /\ tcall.ret = "NULL"
          /\ tcall.errno = IF tcall.valid THEN ENOMEM ELSE EINVAL
          /\ ~ tcall.enq
          /\ tcall.held = {}

\* the user stack could not be allocated and the two earlier pieces were freed
UserStackFailed ==
    /\ tcall.ret = "NULL"
    /\ tcall.tried = {"tcb", "kstack", "ustack"}
    /\ tcall.fails = {"ustack"}

\* C30: task_create enqueues on the core whose index is the lowest set bit
\* of the affinity, on the creating core when the affinity is 0; the mask it
\* stores permits that core and names it
C30_AffinityCore ==
    tcall.ret = "task" =>
       /\ tcall.cpu = IF tcall.aff = 0 THEN tcall.c ELSE Ctz(tcall.aff)
       /\ HasBit(tcall.stored, Shl1(tcall.cpu))
       /\ Ctz(tcall.stored) = tcall.cpu

\* the same for masks whose lowest set bit is below MAX_CPUS
AffinityInRange ==
    (tcall.ret = "task" /\ Ctz(tcall.stored) < MAX_CPUS) =>
       /\ tcall.cpu = IF tcall.aff = 0 THEN tcall.c ELSE Ctz(tcall.aff)
       /\ HasBit(tcall.stored, Shl1(tcall.cpu))
       /\ Ctz(tcall.stored) = tcall.cpu

\* a task created with affinity 0 on core 1
DefaultAffinity ==
    /\ tcall.ret = "task"
    /\ tcall.aff = 0
    /\ tcall.c = 1
    /\ tcall.cpu = 1
\* ------------------------------------------------------------------------
\* C31: no two tasks created by task_create or fork carry the same pid,
\* on whichever cores the two calls ran
C31_UniquePids ==
    \A i, j \in 1..Len(pidlog) :
        i # j => pidlog[i].pid # pidlog[j].pid

\* with the atomic instruction the pids are unique
UniquePidsInline ==
    pbuild = "inline" =>
        \A i, j \in 1..Len(pidlog) : i # j => pidlog[i].pid # pidlog[j].pid

\* two cores were inside the pid assignment at once and both stored a pid
ConcurrentPids ==
    \E i, j \in 1..Len(pidlog) :
        /\ i < j
        /\ pidlog[i].cpu # pidlog[j].cpu
        /\ pidlog[i].fn = "task_create"
        /\ pidlog[j].fn = "fork"
\* ------------------------------------------------------------------------
\* fork
ForkOk == fcall.made /\ fcall.ret # -1
ForkFailed == fcall.made /\ fcall.ret = -1

\* what fork sets up in the child apart from the parent's bookkeeping: a
\* pid no task had, READY, once in the queue of the calling core and in no
\* other, x0 = 0, and the pid returned
ChildSetUp(ch) ==
    /\ \A t \in DOMAIN fcall.before.task : fcall.before.task[t].pid # ftask[ch].pid
    /\ ftask[ch].state = TASK_READY
    /\ \A c \in CPUs :
          Occurrences(QueueOf(ftask, fsched, c), ch) = IF c = fcall.cpu THEN 1 ELSE 0
    /\ ftask[ch].regs0 = 0
    /\ fcall.ret = ftask[ch].pid

\* C32: after a successful fork the child has a fresh pid, its parent is the
\* calling task and the caller's child bookkeeping includes it, it is READY
\* and linked exactly once in the calling core's ready queue, its saved
\* return value is 0 and the caller receives the child's pid
C32_ForkChild ==
    ForkOk =>
        /\ ChildSetUp(fcall.child)
        /\ ftask[fcall.child].parent = fcall.caller
        /\ fcall.child \in ftask[fcall.caller].children
        /\ ftask[fcall.caller].child_count =
              fcall.before.task[fcall.caller].child_count + 1

\* without the bookkeeping, and with current_task for the caller
ForkChildOfCurrent ==
    ForkOk =>
        /\ ChildSetUp(fcall.child)
        /\ ftask[fcall.child].parent = fcall.parent

\* the calling task is current_task and still no child is recorded
ForkByCurrent ==
    /\ ForkOk
    /\ fcall.caller = fcall.parent
    /\ ftask[fcall.caller].child_count = 0
\* the tables reachable from root r, r included
AllTables(p, r) == {r} \cup TablesBelow(p, r, 0, 0 .. (PT_ENTRIES - 1))
\* the state fork returned in: no mmu_map call since
JustForked == fcall.made /\ fmap.task = NULL
ParentRoot == fcall.before.task[fcall.parent].pgtable_l0

ChildRoot == ftask[fcall.child].pgtable_l0
\* user page vp was mapped writable by the parent's tables before the call
WasWritable(vp) ==
    /\ Translate(fcall.before.pgt, ParentRoot, vp).valid
    /\ ~ Translate(fcall.before.pgt, ParentRoot, vp).ro

\* C34: after the duplication of fork succeeds, every user-half mapping
\* that was writable in the parent is read-only in the parent's and in the
\* child's copy
C34_CowReadOnly ==
    (JustForked /\ ForkOk) =>
        \A vp \in UserVps :
            WasWritable(vp) =>
                /\ Translate(fpgt, ParentRoot, vp).ro
                /\ Translate(fpgt, ChildRoot, vp).ro

\* what the duplication does: parent and child translate every user page
\* as the parent did before
DupSameTranslations ==
    (JustForked /\ ForkOk) =>
        \A vp \in UserVps :
            /\ Translate(fpgt, ParentRoot, vp) = Translate(fcall.before.pgt, ParentRoot, vp)
            /\ Translate(fpgt, ChildRoot, vp) = Translate(fcall.before.pgt, ParentRoot, vp)
\* a successful fork was followed by one mmu_map call on parent or child
MappedAfterFork ==
    /\ ForkOk
    /\ fmap.task \in {fcall.parent, fcall.child}
    /\ fmap.before # <<>>
OtherRoot ==
    IF fmap.task = fcall.parent THEN ChildRoot ELSE ParentRoot

\* C35: after the duplication the kernel half of the child's root holds the
\* parent's kernel entries, no user-half table of any level is reachable
\* from both roots, and a later mmu_map of a user page in one of the two
\* tasks changes no translation of the other
C35_UserTablesPrivate ==
    /\ (JustForked /\ ForkOk) =>
          /\ \A i \in KernelHalf : fpgt[ChildRoot][i] = fpgt[ParentRoot][i]
          /\ UserTables(fpgt, ParentRoot) \cap UserTables(fpgt, ChildRoot) = {}
    /\ MappedAfterFork =>
          \A vp \in UserVps :
              Translate(fpgt, OtherRoot, vp) = Translate(fmap.before[1], OtherRoot, vp)

\* what the duplication gives: the kernel half is the parent's, and root
\* and level 1 tables of the user half are the child's own
DupPrivateLevel1 ==
    (JustForked /\ ForkOk /\ mbuild = "kernel/mmu.c") =>
        /\ \A i \in KernelHalf : fpgt[ChildRoot][i] = fpgt[ParentRoot][i]
        /\ ChildRoot # ParentRoot
        /\ \A i \in UserHalf :
              /\ fpgt[ChildRoot][i].valid = fpgt[ParentRoot][i].valid
              /\ fpgt[ParentRoot][i].valid =>
                    fpgt[ChildRoot][i].out # fpgt[ParentRoot][i].out
\* ------------------------------------------------------------------------
\* execve
ExecRoot == ftask[fcurrent].pgtable_l0
ExecFailed == ecall.made /\ ecall.ret = "-1"

\* C36: whenever execve returns an error the calling task's user mappings
\* and its saved pc, sp and argument registers are what they were before
\* the call
C36_ExecveFailure ==
    ExecFailed =>
        /\ etask = ecall.before.ctx
        /\ \A vp \in UserVps :
              Translate(fpgt, ExecRoot, vp) = Translate(ecall.before.pgt, ExecRoot, vp)

\* the saved context is kept on every error, and the mappings on the
\* errors before the first segment is mapped
ExecveFailureContext ==
    ExecFailed =>
        /\ etask = ecall.before.ctx
        /\ (ecall.fault \in {"param", "open", "ehdr", "format"} \/ ecall.at = 1
             \/ mbuild = "mmu.c") =>
              fpgt = ecall.before.pgt

\* the second segment failed after the first was mapped
SecondSegmentFailed ==
    /\ ExecFailed
    /\ ecall.at = 2
    /\ ecall.segs[1].load
    /\ fpgt # ecall.before.pgt
\* ------------------------------------------------------------------------
\* heap: live payloads and the tiling of the arena
\* the payload of the block kmalloc returned p for: from p to the end the
\* header in front of p gives
PayloadEnd(p) == block_end(Heap, p)
Apart(lo1, hi1, lo2, hi2) == hi1 <= lo2 \/ hi2 <= lo1

\* C37: after any sequence of kmalloc, kcalloc and kfree calls, sequences
\* that allocate the whole arena included, the payloads of the live blocks
\* are pairwise disjoint, lie inside the arena, and contain no header of
\* another live block
C37_LivePayloads ==
    \A p \in live :
        /\ p >= HeapBase + HdrSize
        /\ PayloadEnd(p) >= p
        /\ PayloadEnd(p) <= heap_end
        /\ \A q \in live \ {p} :
              /\ Apart(p, PayloadEnd(p), q, PayloadEnd(q))
              /\ Apart(p, PayloadEnd(p), q - HdrSize, q)

\* the same while kmalloc has not re-initialised a carved arena
LivePayloadsIntact == damage = 0 => C37_LivePayloads

\* two blocks are live and the arena is undamaged
TwoLiveIntact == damage = 0 /\ Cardinality(live) >= 2
\* the blocks met walking the arena by header size from heap[0], and the
\* address the walk stops at
RECURSIVE walk_end(_, _, _)
walk_end(h, b, fuel) ==
    IF b < HeapBase \/ b >= heap_end \/ fuel = 0 \/ magic(h, b) # HDR_MAGIC \/ size(h, b) = 0
    THEN b
    ELSE walk_end(h, next_phys(h, b), fuel - 1)
\* the arena as heap_stats and kmalloc see it: initialised on first use
Arena == Settled(Heap)
ArenaBlocks == phys_blocks(Arena, HeapBase, HeapUnits)
ArenaFree == free_list(Arena, Arena.head, HeapUnits + 1)

\* C38: in every reachable heap state the blocks tile the arena (the walk
\* by header size meets only headers with the magic tag and ends at the
\* end of the arena), each block's prev_phys is the block visited before
\* it (NULL for the first), and the free list holds exactly the blocks
\* marked free, each once
C38_Tiling ==
    /\ walk_end(Arena, HeapBase, HeapUnits + 1) = heap_end
    /\ \A i \in 1 .. Len(ArenaBlocks) :
          prev_phys(Arena, ArenaBlocks[i]) =
            IF i = 1 THEN NULL ELSE ArenaBlocks[i - 1]
    /\ SeqToSet(ArenaFree) =
          {b \in SeqToSet(ArenaBlocks) : free(Arena, b) # 0}
    /\ Len(ArenaFree) = Cardinality(SeqToSet(ArenaFree))

\* the same while the arena is undamaged
TilingIntact == damage = 0 => C38_Tiling

\* an undamaged arena of three blocks, the middle one free
ThreeBlocksIntact ==
    /\ damage = 0
    /\ Len(ArenaBlocks) = 3
    /\ free(Arena, ArenaBlocks[2]) # 0
\* ------------------------------------------------------------------------
\* schedule: the task published when it returns
\* the READY tasks of core c's queue after the step that had a strictly
\* higher priority than the task the step published as the core's current
Outranking(c) ==
    {t \in SeqToSet(QueueOf(task', cpu_sched', c)) :
        /\ task'[t].state = TASK_READY
        /\ task'[t].priority > task'[cpu_sched'[c].current].priority}

\* C39: when schedule() returns, no READY task in the calling core's ready
\* queue, the previous task just demoted to READY included, has strictly
\* higher priority than the task now published as the core's current task
C39_ScheduleHighest ==
    [][\A c \in CPUs : ScheduleCommit(c) => Outranking(c) = {}]_vars

\* the same with the previous task left out: it was RUNNING when
\* pick_next_task scanned the queue
ScheduleHighestOfOthers ==
    [][\A c \in CPUs : ScheduleCommit(c) => Outranking(c) \subseteq {loc[c].prev}]_vars
\* ------------------------------------------------------------------------
\* timers
TimerQueue == timer_walk(tm, thead, NumTimers + 1)
\* no call of the core is in progress
TimerQuiet == tq.at = "idle"

\* C40: after any sequence of timer_schedule, timer_cancel and
\* timer_irq_handler, callbacks that call timer_schedule or timer_cancel
\* included, a timer has active == 1 exactly when it is linked in the
\* list, the list is acyclic and sorted by expiry, and no callback is
\* invoked for a timer after timer_cancel on it has returned
C40_TimerList ==
    /\ TimerQuiet =>
          /\ Len(TimerQueue) <= NumTimers
          /\ Len(TimerQueue) = Cardinality(SeqToSet(TimerQueue))
          /\ \A t \in Timers : tm[t].active = 1 <=> t \in SeqToSet(TimerQueue)
          /\ \A i \in 1 .. (Len(TimerQueue) - 1) :
                tm[TimerQueue[i]].expires_ns <= tm[TimerQueue[i + 1]].expires_ns
    /\ ~ tlate

\* the same as long as timer_schedule is called on unlinked timers only and
\* callbacks call neither function
TimerListPlain == ~ tnested => C40_TimerList

\* both timers are linked at the last tick, and no call was made on a
\* linked timer or from a callback
TwoTimersPlain ==
    /\ TimerQuiet
    /\ ~ tnested
    /\ Len(TimerQueue) = NumTimers
    /\ tnow = MaxTime

====
